---- MODULE Spec2Model ----
(***************************************************************************)
(* Cluster coordination engine of node-red-storage-valkey                  *)
(* (class ValkeyStorage, role-based revision of storage.ts).               *)
(*                                                                         *)
(* Two engine processes share one key-value store with publish/subscribe.  *)
(* Every asynchronous method is split at its awaits: a save is the chain   *)
(* local write -> shared-store write -> publish, and another process, a    *)
(* read of the same process or a subscriber callback may run between two   *)
(* links. A process awaits a save before it starts its next save.          *)
(*                                                                         *)
(* Scope of the configurations explored here: syncPackages: false, so the  *)
(* package synchronisation branch of init() and of saveSettings() is not   *)
(* entered; close() is not called.                                         *)
(***************************************************************************)
EXTENDS Integers, Sequences, FiniteSets, TLC

\* ------------------------------------------------------------------------
\* Bounds of the model
\* ------------------------------------------------------------------------

\* number of API calls (get*/save*) the host makes, all processes together
MaxOps == 2
\* the clock advances in steps of at most TickMs, up to MaxTime
TickMs == 250
MaxTime == 1250
\* abstract JSON length contributed by one flow node
NodeJsonLen == 600

\* ------------------------------------------------------------------------
\* Program constants
\* ------------------------------------------------------------------------

\* the delay of the package-sync debounce timer, in milliseconds
DebounceMs == 500

\* serialize(): JSON longer than this is gzip-compressed when enabled
CompressThreshold == 1024
\* process.exit code of the reload fallback
ExitRestart == 0
\* the exit code of a failed package sync
ExitFailure == 1

\* the configuration of the deployment: enableCompression: true, so small
\* values are stored as plain JSON and large ones gzip-compressed
EnableCompression == TRUE
KeyPrefix == "nodered:"
UpdateChannel == "nodered:flows:updated"

Procs == {"p1", "p2"}
Cats == {"flows", "credentials", "settings", "sessions"}
NoRole == "undefined"

\* ------------------------------------------------------------------------
\* Values.  Every JavaScript value the engine handles is one record shape:
\*   kind "null"  : null / undefined
\*   kind "arr"   : a bare array of flow nodes
\*   kind "obj"   : a FlowConfig object {flows, rev}
\*   kind "plain" : any other object (credentials, settings, sessions),
\*                  identified by body
\* A flow node is its id; id 0 stands for an entry without id (or null).
\* ------------------------------------------------------------------------

Null == [kind |-> "null", flows |-> <<>>, rev |-> "", body |-> "", meta |-> ""]
Arr(fs) == [kind |-> "arr", flows |-> fs, rev |-> "", body |-> "", meta |-> ""]
Obj(fs, r) == [kind |-> "obj", flows |-> fs, rev |-> r, body |-> "", meta |-> ""]
Plain(b) == [kind |-> "plain", flows |-> <<>>, rev |-> "", body |-> b, meta |-> ""]

\* a LibraryEntry `{ ...meta, fn: body }`: kind "entry", the fields of meta
\* identified by meta, fn held in body
Entry(meta, body) ==
  [kind |-> "entry", flows |-> <<>>, rev |-> "", body |-> body, meta |-> meta]
EmptyObj == Plain("{}")

\* inputs of the save calls
FlowInputs == {Arr(<<1>>), Obj(<<0, 2>>, "r7")}
\* saveFlows(flows, skipPublish) is called with these argument pairs
FlowCalls == {[v |-> Arr(<<1>>), skip |-> FALSE],
              [v |-> Obj(<<0, 2>>, "r7"), skip |-> FALSE],
              [v |-> Obj(<<0, 2>>, "r7"), skip |-> TRUE]}
CredentialsInputs == {Plain("big")}
SettingsInputs == {Plain("a"), Null}
SessionsInputs == {Plain("a")}

\* flows files that hold a bare array of nodes, one of them without an id
ArrayFlowsAtStart == {Arr(<<4, 0, 5>>)}

\* what a local filesystem store may hold before the engine starts
LocalFlowsAtStart == {Arr(<<>>), Obj(<<3>>, "r3")}

\* length of JSON.stringify(v)
JsonLen(v) ==
  CASE v.kind = "null" -> 4
    [] v.kind = "arr" -> 2 + NodeJsonLen * Len(v.flows)
    [] v.kind = "obj" -> 20 + NodeJsonLen * Len(v.flows)
    [] OTHER -> IF v.body = "big" THEN 2 * CompressThreshold ELSE 8

\* A string held by the shared store: an optional "gzip:" prefix and a
\* payload that is either JSON text (gz = FALSE) or gzip-compressed,
\* base64-encoded JSON text (gz = TRUE).
NoStr == [prefix |-> "none", gz |-> FALSE, val |-> Null]
ParseError == [kind |-> "error", flows |-> <<>>, rev |-> "", body |-> "", meta |-> ""]

JSONstringify(v) == [gz |-> FALSE, val |-> v]
JSONparse(t) == IF t.gz THEN ParseError ELSE t.val
gzipBase64(t) == [gz |-> TRUE, val |-> t.val]
gunzipBase64(t) == [gz |-> FALSE, val |-> t.val]

\* serialize(data) under a configuration with enableCompression = cz
serialize(v, cz) ==
  LET json == JSONstringify(v) IN
  IF cz /\ JsonLen(v) > CompressThreshold
    THEN [prefix |-> "gzip:", gz |-> gzipBase64(json).gz, val |-> json.val]
    ELSE [prefix |-> "", gz |-> json.gz, val |-> json.val]

\* deserialize(data): gunzip when the string starts with "gzip:"
deserialize(d) ==
  LET t == [gz |-> d.gz, val |-> d.val] IN
  IF d.prefix = "gzip:" THEN JSONparse(gunzipBase64(t)) ELSE JSONparse(t)

\* an entry of the shared store: the string and whether it was SET with EX
NoData == [str |-> NoStr, ex |-> FALSE]

\* the key prefixes a deployment may be configured with: the default and
\* another one
KeyPrefixes == {KeyPrefix, "prod:"}

VARIABLE
  keyPrefix     \* this.config.keyPrefix of the processes of the deployment

\* getKey(name)
getKey(name) == <<keyPrefix, name>>

\* `projects:${activeProject.name}:${type}` for the project proj1
ProjectName(type) ==
  CASE type = "flows" -> "projects:proj1:flows"
    [] type = "credentials" -> "projects:proj1:credentials"
    [] OTHER -> type

\* the names the engine makes keys of
KeyNames ==
  Cats \cup {"config", "activeProject"}
       \cup {ProjectName(c) : c \in {"flows", "credentials"}}

\* the category keys of the shared store
Keys == {<<pf, n>> : pf \in KeyPrefixes, n \in KeyNames}

\* Library paths are sequences of segments; a segment that ends with '/' is
\* a directory. The library types, paths and entries the host uses:
LibTypes == {"functions", "flows"}
DirSegments == {"d/"}
LibPaths == {<<"a.js">>, <<"d/", "b.js">>, <<"d/", "c.js">>}
LibDirs == {<<>>, <<"d/">>}
LibInputs == {[meta |-> "m1", body |-> "f1"], [meta |-> "m2", body |-> "big"]}

\* getLibraryKey(type, path): `${keyPrefix}library:${type}:${path}`
getLibraryKey(type, path) == <<keyPrefix, "library:", type, path>>

\* the library keys of the shared store
LibKeys == {<<pf, "library:", t, pa>> :
              pf \in KeyPrefixes, t \in LibTypes, pa \in LibPaths}

\* the literal key of the persisted package list
packagesKey == <<"nodered:", "packages">>

RECURSIVE FilterValid(_)
FilterValid(fs) ==
  IF fs = <<>> THEN <<>>
  ELSE IF Head(fs) = 0 THEN FilterValid(Tail(fs))
       ELSE <<Head(fs)>> \o FilterValid(Tail(fs))

\* sanitizeFlows(flowConfig): always a FlowConfig object
sanitizeFlows(v) ==
  CASE v.kind = "null" -> Obj(<<>>, "0")
    [] v.kind = "arr" -> Obj(FilterValid(v.flows), "0")
    [] v.kind = "obj" -> Obj(FilterValid(v.flows), IF v.rev = "" THEN "0" ELSE v.rev)
    [] OTHER -> Obj(<<>>, IF v.rev = "" THEN "0" ELSE v.rev)

\* `x || {}`
OrEmpty(v) == IF v.kind = "null" THEN EmptyObj ELSE v

\* ------------------------------------------------------------------------
\* State
\* ------------------------------------------------------------------------

VARIABLES
  phase,        \* per process: position in init(), then "ready"/"failed"/"exited"
  given,        \* per process: the role field init() was called with
  role,         \* per process: this.config.role ("unset" before validation)
  runtime,      \* per process: this.runtime: "none", "nohook" or "hook"
  client,       \* per process: this.client was created and has not quit
  lfs,          \* per process: this.localfilesystem is set
  local,        \* per process: content of the Local Persistent Store
  needsRestore, \* per process: the lazy restore flags
  packageSyncTimer, \* per process: a debounce timer is pending
  store,        \* the Shared State Store: key -> entry
  fver,         \* number of writes the flows key has received
  wrote,        \* the shared-store write of the latest step, if any
  saved,        \* per category: the latest save whose store write completed
  subs,         \* processes subscribed to the flow-update channel
  inbox,        \* per process: notifications delivered, handler not started
  hooks,        \* per process: handler invocations awaiting loadFlows()
  hookEvent,    \* the handler invocation that ended in the latest step, if any
  exitCode,     \* per process: the codes passed to process.exit (none while it runs)
  calls,        \* per process: its save calls in flight
  ops,          \* API calls made so far
  last,         \* the API call that returned in the latest step, if any
  restores,     \* per process: its ensureRestored calls in flight
  fetches,      \* per process and category: shared-store fetches of ensureRestored
  restoreEvent, \* the ensureRestored call that returned in the latest step, if any
  syncPackages,      \* per process: config.syncPackages
  packageHelper,     \* per process: a PackageHelper was constructed
  lastKnownPackages, \* per process: {} when undefined, {S} when it holds set S
  manifest,     \* per process: {} when userDir has no package.json, else {its dependencies}
  modules,      \* per process: the packages installed under userDir
  pkgStore,     \* the key 'nodered:packages': {} when absent, else {the stored list}
  pkgSubs,      \* the processes subscribed to the package channel
  pkgInbox,     \* per process: package-channel messages not yet handled
  passes,       \* per process: the worker sync passes awaiting the installer
  sync,         \* per process: its handlePackageSync call in flight, if any
  timers,       \* per process: the due times of its pending debounce timeouts
  now,          \* the clock, in milliseconds
  hist,         \* history of the package synchronization (not program state)
  pkgEvent,     \* what the package synchronization did in the latest step, if anything
  realProjectsModule, \* per process: the module's realProjectsModule is set
  cachedGitUser,      \* per process: the module's cachedGitUser is set
  answer        \* the latest call through the projects proxy, if any

vars == <<keyPrefix, phase, given, role, runtime, client, lfs, local,
          needsRestore, packageSyncTimer, store, fver, wrote, saved, subs,
          inbox,
          hooks, hookEvent, exitCode, calls, ops, last,
          restores, fetches, restoreEvent,
          syncPackages, packageHelper, lastKnownPackages, manifest, modules,
          pkgStore, pkgSubs, pkgInbox, passes, sync, timers, now, hist,
          pkgEvent, realProjectsModule, cachedGitUser, answer>>

\* the state of the storage module around the engine, and what its projects
\* proxy answered
indexVars == <<realProjectsModule, cachedGitUser, answer>>

cfgVars == <<given, role, runtime, client, lfs, needsRestore,
             packageSyncTimer>>

\* the three observation variables hold what the latest step did and are
\* reset by every step that does not do it
NoWrite == [proc |-> "", key |-> <<>>]
NoEvent == [proc |-> "", how |-> "none"]

NoCall == [op |-> "none", proc |-> "", cat |-> "", skip |-> FALSE,
           outcome |-> "", result |-> Null, pubs |-> 0,
           readStore |-> FALSE, storeSnap |-> NoData, localSnap |-> Null,
           localDone |-> FALSE, mirror |-> "no",
           key |-> <<>>, dir |-> FALSE, entries |-> <<>>, snap |-> {}]
NoSave == [arg |-> Null, val |-> Null, by |-> "", live |-> FALSE,
           key |-> <<>>, ap |-> FALSE]
NoRestore == [pc |-> "free", cat |-> "", ap |-> FALSE, from |-> Null, val |-> Null,
              key |-> <<>>, named |-> FALSE]
NoSync == [pc |-> "free", set |-> {}]
\* no call through the projects proxy yet
NoAnswer == [proc |-> "", prop |-> "", ready |-> FALSE, forwarded |-> FALSE,
             ends |-> "none", value |-> ""]

NoPkgEvent == [proc |-> "", kind |-> "none", trigger |-> "", admin |-> {},
               worker |-> {}, toInstall |-> {}, toUninstall |-> {},
               known |-> {}, changed |-> FALSE, first |-> FALSE,
               batch |-> "none", key |-> <<>>]
NoHist == [arrivals |-> <<>>, arms |-> <<>>, starts |-> <<>>,
           published |-> {}, pubs |-> 0,
           got |-> [p \in Procs |-> 0],
           failed |-> [p \in Procs |-> FALSE],
           restarted |-> [p \in Procs |-> FALSE],
           compared |-> [p \in Procs |-> FALSE],
           lib |-> {}, skipped |-> FALSE]
NoRestoreEvent == [proc |-> "", cat |-> "", needed |-> FALSE, fetched |-> FALSE,
                   wrote |-> FALSE, from |-> Null, to |-> Null,
                   outcome |-> "none", threw |-> FALSE,
                   key |-> <<>>, named |-> FALSE]

\* package names: the prefix the filters look at, and the rest of the name
Red == <<"node-red-contrib-", "red">>
Blue == <<"node-red-contrib-", "blue">>
Green == <<"@", "green/node-red-green">>
Express == <<"", "express">>

\* the dependencies of the package.json a userDir starts with
ManifestAtStart == {{Express}}

LocalAtStart == [c \in Cats |-> IF c = "flows" THEN Arr(<<>>) ELSE EmptyObj]

\* the state after construction, whatever the configuration
Constructed ==
  /\ phase = [p \in Procs |-> "new"]
  /\ given = [p \in Procs |-> "notyet"]
  /\ role = [p \in Procs |-> "unset"]
  /\ runtime = [p \in Procs |-> "none"]
  /\ client = [p \in Procs |-> FALSE]
  /\ lfs = [p \in Procs |-> FALSE]
  /\ local = [p \in Procs |-> LocalAtStart]
  /\ needsRestore = [p \in Procs |-> [c \in Cats |-> TRUE]]
  /\ packageSyncTimer = [p \in Procs |-> FALSE]
  /\ store = [k \in Keys \cup LibKeys |-> NoData]
  /\ fver = 0
  /\ wrote = NoWrite
  /\ saved = [c \in Cats |-> NoSave]
  /\ subs = {}
  /\ inbox = [p \in Procs |-> <<>>]
  /\ hooks = [p \in Procs |-> <<>>]
  /\ hookEvent = NoEvent
  /\ exitCode = [p \in Procs |-> {}]
  /\ calls = [p \in Procs |-> <<>>]
  /\ ops = 0
  /\ last = NoCall
  /\ restores = [p \in Procs |-> <<>>]
  /\ fetches = [p \in Procs |-> [c \in Cats |-> 0]]
  /\ restoreEvent = NoRestoreEvent
  /\ syncPackages = [p \in Procs |-> FALSE]
  /\ packageHelper = [p \in Procs |-> FALSE]
  /\ lastKnownPackages = [p \in Procs |-> {}]
  /\ manifest = [p \in Procs |-> ManifestAtStart]
  /\ modules = [p \in Procs |-> {}]
  /\ pkgStore = {}
  /\ pkgSubs = {}
  /\ pkgInbox = [p \in Procs |-> <<>>]
  /\ passes = [p \in Procs |-> <<>>]
  /\ sync = [p \in Procs |-> NoSync]
  /\ timers = [p \in Procs |-> {}]
  /\ now = 0
  /\ hist = NoHist
  /\ pkgEvent = NoPkgEvent
  /\ realProjectsModule = [p \in Procs |-> FALSE]
  /\ cachedGitUser = [p \in Procs |-> FALSE]
  /\ answer = NoAnswer

\* a deployment with the default key prefix
Init == Constructed /\ keyPrefix = KeyPrefix

\* a deployment with any of the key prefixes
KeyInit == Constructed /\ keyPrefix \in KeyPrefixes

\* client.set(key, str) / client.set(key, str, 'EX', ttl) issued by process p
StoreSet(k, str, ex, p) ==
  /\ store' = [store EXCEPT ![k] = [str |-> str, ex |-> ex]]
  /\ wrote' = [proc |-> p, key |-> k]
  /\ fver' = IF k = getKey("flows") THEN fver + 1 ELSE fver

StoreSame == UNCHANGED <<store, fver>> /\ wrote' = NoWrite

\* no handler invocation ends in this step
HookSame == UNCHANGED hooks /\ hookEvent' = NoEvent

\* no API call returns in this step
NoReturn == last' = NoCall

\* the package state a process.exit() takes with it
PkgProcSame == UNCHANGED <<pkgSubs, pkgInbox, passes, sync, timers>>

\* the package state that outlives a process, the clock and the history
PkgRestSame ==
  /\ UNCHANGED <<keyPrefix, syncPackages, packageHelper, lastKnownPackages, manifest,
                 modules, pkgStore, now, indexVars, hist>>

\* the package synchronization does nothing in this step
PkgSame == PkgProcSame /\ PkgRestSame /\ pkgEvent' = NoPkgEvent

\* no ensureRestored call moves in this step
RestoreSame == UNCHANGED <<restores, fetches>> /\ restoreEvent' = NoRestoreEvent

\* ------------------------------------------------------------------------
\* init(settings, runtime)
\* ------------------------------------------------------------------------

RoleInputs(p) ==
  IF p = "p1" THEN {"admin", NoRole, "bogus"} ELSE {"worker", NoRole, "bogus"}

\* the runtime argument of init(): absent, or a runtime with nodes.loadFlows
RuntimeInputs(p) ==
  IF p = "p1" THEN {"hook"} ELSE {"none", "hook"}

ValidRoleLax(r) == TRUE

\* the role check of init()
ValidRole(r) == r = "admin" \/ r = "worker"

\* what the flows file of the Local Persistent Store may hold when it is
\* loaded: an admin's disk has no flows yet or the flows of an earlier run; a
\* worker keeps the copy of an earlier run
LocalInputs(r) ==
  IF r = "admin" THEN LocalFlowsAtStart \cup ArrayFlowsAtStart
  ELSE {Obj(<<3>>, "r3")}

\* where init() goes after the seeding and the flows subscription:
\* `if (this.config.syncPackages)`
InitDone(sp) == IF sp THEN "packages" ELSE "ready"

\* init() from its call to the end of the localfilesystem block: the role
\* check, `new Redis` with `await this.client.ping()`, and the loading of
\* localfilesystem, none of which touches the shared store.
\* r, rt: the role field and the runtime argument; pingOk: the ping resolved;
\* ud: settings.userDir is set; lfsOk: localfilesystem.init() resolved;
\* lf: the flows the local store holds; sp: the syncPackages option
InitStart(p, r, rt, pingOk, ud, lfsOk, lf, sp) ==
  /\ phase[p] = "new"
  /\ sp => (ValidRole(r) /\ pingOk)
  /\ syncPackages' = [syncPackages EXCEPT ![p] = sp]
  /\ UNCHANGED keyPrefix
  /\ given' = [given EXCEPT ![p] = r]
  /\ runtime' = [runtime EXCEPT ![p] = rt]
  /\ lfsOk => (ud /\ rt # "none" /\ pingOk /\ ValidRole(r))
  /\ ~lfsOk => lf = Arr(<<>>)
  /\ lfsOk => lf \in LocalInputs(r)
  /\ IF ~ValidRole(r)
       THEN /\ pingOk /\ ud
            /\ phase' = [phase EXCEPT ![p] = "failed"]
            /\ UNCHANGED <<role, client, lfs, local>>
       ELSE /\ role' = [role EXCEPT ![p] = r]
            /\ client' = [client EXCEPT ![p] = TRUE]
            /\ IF ~pingOk
                 THEN /\ ud
                      /\ phase' = [phase EXCEPT ![p] = "failed"]
                      /\ UNCHANGED <<lfs, local>>
                 ELSE /\ lfs' = [lfs EXCEPT ![p] = lfsOk]
                      /\ local' = [local EXCEPT ![p]["flows"] = lf]
                      /\ phase' = [phase EXCEPT ![p] =
                           IF r = "admin" /\ lfsOk THEN "seedFlows"
                           ELSE IF r = "worker" THEN "subscribe"
                           ELSE InitDone(sp)]
  /\ UNCHANGED <<needsRestore, packageSyncTimer, subs, inbox, exitCode, calls,
                 ops, saved>>
  /\ NoReturn
  /\ HookSame
  /\ StoreSame
  /\ RestoreSame
  /\ PkgProcSame
  /\ UNCHANGED <<packageHelper, lastKnownPackages, manifest, modules, pkgStore,
                 now, indexVars, hist>>
  /\ pkgEvent' = NoPkgEvent

\* `flows && (Array.isArray(flows) ? flows.length > 0 : Object.keys(flows).length > 0)`
NonEmptyFlows(v) ==
  CASE v.kind = "null" -> FALSE
    [] v.kind = "arr" -> Len(v.flows) > 0
    [] v.kind = "obj" -> TRUE
    [] OTHER -> v.body # "{}"

InitRest(p) ==
  /\ UNCHANGED <<given, role, runtime, client, lfs, local,
                 needsRestore, packageSyncTimer, subs, inbox, exitCode, calls,
                 ops, saved>>
  /\ NoReturn
  /\ HookSame
  /\ RestoreSame
  /\ PkgSame

\* admin init(): `client.exists(flowsKey)`, then localfilesystem.getFlows()
InitSeedFlowsCheck(p, ok) ==
  /\ phase[p] = "seedFlows"
  /\ phase' = [phase EXCEPT ![p] =
       IF ~ok THEN InitDone(syncPackages[p])
       ELSE IF store[getKey("flows")] = NoData /\ NonEmptyFlows(local[p]["flows"])
         THEN "seedFlowsSet" ELSE "seedCreds"]
  /\ InitRest(p)
  /\ StoreSame

\* admin init(): `client.set(flowsKey, serialize(flows))`
InitSeedFlowsSet(p, ok) ==
  /\ phase[p] = "seedFlowsSet"
  /\ IF ok
       THEN /\ StoreSet(getKey("flows"), serialize(local[p]["flows"], EnableCompression), FALSE, p)
            /\ phase' = [phase EXCEPT ![p] = "seedCreds"]
       ELSE /\ StoreSame
            /\ phase' = [phase EXCEPT ![p] = InitDone(syncPackages[p])]
  /\ InitRest(p)

\* admin init(): `client.exists(credsKey)`
InitSeedCredsCheck(p, ok) ==
  /\ phase[p] = "seedCreds"
  /\ phase' = [phase EXCEPT ![p] =
       IF ok /\ store[getKey("credentials")] = NoData
         THEN "seedCredsSet" ELSE InitDone(syncPackages[p])]
  /\ InitRest(p)
  /\ StoreSame

\* admin init(): `client.set(credsKey, serialize(getCredentials() || {}))`
InitSeedCredsSet(p, ok) ==
  /\ phase[p] = "seedCredsSet"
  /\ IF ok
       THEN StoreSet(getKey("credentials"),
                     serialize(OrEmpty(local[p]["credentials"]), EnableCompression), FALSE, p)
       ELSE StoreSame
  /\ phase' = [phase EXCEPT ![p] = InitDone(syncPackages[p])]
  /\ InitRest(p)

\* worker init(): `subscriber = client.duplicate(); await subscriber.subscribe(...)`
\* and the registration of the message handler
InitSubscribe(p, ok) ==
  /\ phase[p] = "subscribe"
  /\ subs' = IF ok THEN subs \cup {p} ELSE subs
  /\ phase' = [phase EXCEPT ![p] =
       IF ok THEN InitDone(syncPackages[p]) ELSE "failed"]
  /\ UNCHANGED <<given, role, runtime, client, lfs, local,
                 needsRestore, packageSyncTimer, inbox, exitCode, calls, ops,
                 saved>>
  /\ NoReturn
  /\ HookSame
  /\ StoreSame
  /\ RestoreSame
  /\ PkgSame

\* ------------------------------------------------------------------------
\* save*(value): local write, then shared-store write, then publish
\* ------------------------------------------------------------------------

SaveInputs(cat) ==
  CASE cat = "flows" -> FlowInputs
    [] cat = "credentials" -> CredentialsInputs
    [] cat = "settings" -> SettingsInputs
    [] OTHER -> SessionsInputs

\* saveFlows: `activeProject ? sanitized.flows : sanitized`
FlowsDataToSave(sanitized, activeProject) ==
  IF activeProject THEN Arr(sanitized.flows) ELSE sanitized

\* the value a save mirrors to the shared store
MirrorValue(cat, v) == IF cat = "flows" THEN sanitizeFlows(v) ELSE v

\* the value a save hands to localfilesystem.save*();
\* ap: localfilesystem.projects.getActiveProject() returns a project
LocalValue(cat, v, ap) ==
  IF cat = "flows" THEN FlowsDataToSave(sanitizeFlows(v), ap) ELSE v

\* saveSettings: `!settings || typeof settings !== 'object'`
RejectsInput(cat, v) == cat = "settings" /\ v.kind = "null"

MirrorAfterLocalAlways(p, localOk) == TRUE

\* `await this.localfilesystem.save*(...)` is not wrapped in try/catch: the
\* save goes on to the shared-store write only when the local write resolved
MirrorAfterLocal(p, localOk) == localOk

\* saveFlows: `this.config.role === 'admin' && !skipPublish`
PublishesUpdate(c) == c.cat = "flows" /\ role[c.proc] = "admin" /\ ~c.skip

StepAfterPublishFirst(c, pc) ==
  CASE pc = "local" -> IF PublishesUpdate(c) THEN "publish" ELSE "mirror"
    [] pc = "publish" -> "mirror"
    [] OTHER -> "done"

\* the order of the awaits of a save: the local write, then client.set, then
\* (saveFlows only) client.publish
StepAfter(c, pc) ==
  CASE pc = "local" -> "mirror"
    [] pc = "mirror" -> IF PublishesUpdate(c) THEN "publish" ELSE "done"
    [] OTHER -> "done"

\* how a save ends when `client.set` rejects: the rejection is not caught
MirrorFailure == "mirror"

\* the record of a save call that returns (resolves or rejects)
SaveReturn(c, outcome) ==
  [NoCall EXCEPT !.op = "save", !.proc = c.proc, !.cat = c.cat, !.skip = c.skip,
                 !.outcome = outcome, !.pubs = c.pubs, !.localDone = c.localOk,
                 !.mirror = c.mirror]

RemoveAt(sq, i) == SubSeq(sq, 1, i - 1) \o SubSeq(sq, i + 1, Len(sq))

\* call i of process p, now c, has finished step pc
Advance(p, i, c, pc) ==
  IF StepAfter(c, pc) = "done"
    THEN /\ calls' = [calls EXCEPT ![p] = RemoveAt(@, i)]
         /\ last' = SaveReturn(c, "ok")
    ELSE /\ calls' = [calls EXCEPT ![p][i] = [c EXCEPT !.pc = StepAfter(c, pc)]]
         /\ NoReturn

\* call i of process p, now c, rejects
Reject(p, i, c, outcome) ==
  /\ calls' = [calls EXCEPT ![p] = RemoveAt(@, i)]
  /\ last' = SaveReturn(c, outcome)

\* save*() from its call to the end of `await this.localfilesystem.save*(...)`
\* ap: a project is active in the local store;
\* localOk: the local write succeeded (vacuously when there is no local store);
\* n: the number of save calls the host has in flight at most
SaveLocal(p, cat, v, skip, ap, localOk, n) ==
  LET c == [pc |-> "local", proc |-> p, cat |-> cat, arg |-> v,
            val |-> MirrorValue(cat, v),
            skip |-> skip, localOk |-> localOk, mirror |-> "no", wver |-> 0,
            pubs |-> 0, at |-> now, ap |-> ap] IN
  /\ phase[p] = "ready"
  /\ ops < MaxOps
  /\ Len(calls[p]) < n
  /\ v \in SaveInputs(cat)
  /\ cat = "flows" => [v |-> v, skip |-> skip] \in FlowCalls
  /\ cat # "flows" => ~skip
  /\ ap => (cat = "flows" /\ lfs[p] /\ localOk)
  /\ ~lfs[p] => localOk
  /\ RejectsInput(cat, v) => localOk
  /\ ops' = ops + 1
  /\ IF RejectsInput(cat, v)
       THEN /\ last' = SaveReturn([c EXCEPT !.localOk = FALSE], "invalid")
            /\ UNCHANGED <<calls, local>>
       ELSE /\ local' = IF lfs[p] /\ localOk
                          THEN [local EXCEPT ![p][cat] = LocalValue(cat, v, ap)]
                          ELSE local
            /\ IF MirrorAfterLocal(p, localOk)
                 THEN /\ calls' = [calls EXCEPT ![p] =
                           Append(@, [c EXCEPT !.pc = StepAfter(c, "local")])]
                      /\ NoReturn
                 ELSE /\ last' = SaveReturn(c, "local")
                      /\ UNCHANGED calls
  /\ UNCHANGED <<phase, subs, inbox, exitCode, saved>>
  /\ UNCHANGED cfgVars
  /\ RestoreSame
  /\ PkgSame
  /\ HookSame
  /\ StoreSame

\* saveSettings: `this.config.syncPackages && this.config.role === 'admin'`
ArmsPackageSync(c) ==
  c.cat = "settings" /\ syncPackages[c.proc] /\ role[c.proc] = "admin"

ArmTimerKeepsOld(p) == timers' = [timers EXCEPT ![p] = @ \cup {now + DebounceMs}]

\* `if (this.packageSyncTimer) clearTimeout(this.packageSyncTimer)` and
\* `this.packageSyncTimer = setTimeout(..., 500)`
ArmTimer(p) == timers' = [timers EXCEPT ![p] = {now + DebounceMs}]

\* save*(): `await this.client.set(key, serialize(value))`
\* (saveSessions: `client.set(key, data, 'EX', sessionTTL)`)
SaveMirror(p, i, ok) ==
  LET c == calls[p][i] IN
  /\ i \in 1..Len(calls[p])
  /\ c.pc = "mirror"
  /\ phase[p] = "ready"
  /\ IF ok
       THEN /\ StoreSet(getKey(c.cat), serialize(c.val, EnableCompression),
                        c.cat = "sessions", c.proc)
            /\ saved' = [saved EXCEPT ![c.cat] =
                           [arg |-> c.arg, val |-> c.val, by |-> c.proc,
                            live |-> TRUE, key |-> getKey(c.cat), ap |-> c.ap]]
            /\ packageSyncTimer' = [packageSyncTimer EXCEPT ![p] =
                 @ \/ ArmsPackageSync(c)]
            /\ IF ArmsPackageSync(c)
                 THEN /\ ArmTimer(p)
                      /\ hist' = [hist EXCEPT !.arrivals = Append(@, c.at),
                                              !.arms = Append(@, now)]
                 ELSE UNCHANGED <<timers, hist>>
            /\ Advance(p, i, [c EXCEPT !.mirror = "ok", !.wver = fver'], "mirror")
       ELSE /\ StoreSame
            /\ UNCHANGED <<saved, packageSyncTimer, timers, hist>>
            /\ Reject(p, i, [c EXCEPT !.mirror = "failed"], MirrorFailure)
  /\ UNCHANGED <<phase, local, subs, inbox, exitCode, ops>>
  /\ UNCHANGED <<given, role, runtime, client, lfs, needsRestore>>
  /\ RestoreSame
  /\ UNCHANGED <<keyPrefix, syncPackages, packageHelper, lastKnownPackages, manifest,
                 modules, pkgStore, pkgSubs, pkgInbox, passes, sync, now, indexVars>>
  /\ pkgEvent' = NoPkgEvent
  /\ HookSame

\* saveFlows(): `await this.client.publish(updateChannel, Date.now().toString())`
\* The payload is only logged by the subscriber; the message carries instead
\* the number of the flows write its save made (0: none yet).
SavePublish(p, i, ok) ==
  LET c == calls[p][i] IN
  /\ i \in 1..Len(calls[p])
  /\ c.pc = "publish"
  /\ phase[p] = "ready"
  /\ IF ok
       THEN /\ inbox' = [q \in Procs |->
                  IF q \in subs
                    THEN Append(inbox[q], [ver |-> c.wver, from |-> c.proc])
                    ELSE inbox[q]]
            /\ Advance(p, i, [c EXCEPT !.pubs = c.pubs + 1], "publish")
       ELSE /\ UNCHANGED inbox
            /\ Reject(p, i, c, "publish")
  /\ UNCHANGED <<phase, local, subs, exitCode, ops, saved>>
  /\ UNCHANGED cfgVars
  /\ RestoreSame
  /\ PkgSame
  /\ HookSame
  /\ StoreSame

\* ------------------------------------------------------------------------
\* get*()
\* ------------------------------------------------------------------------

\* the fallback of get*() when no store was read
EmptyDefault(cat) == IF cat = "flows" THEN Obj(<<>>, "0") ELSE EmptyObj

\* admin branch of get*(): delegate to localfilesystem
AdminRead(p, cat) ==
  IF lfs[p]
    THEN IF cat \in {"credentials", "sessions"}
           THEN OrEmpty(local[p][cat]) ELSE local[p][cat]
    ELSE EmptyDefault(cat)

ExtractFlowsWhole(v) == v

\* worker getFlows(): `!Array.isArray(flows) && flows && 'flows' in flows`
ExtractFlows(v) == IF v.kind = "obj" THEN Arr(v.flows) ELSE v

\* worker branch of get*(): read the key of the shared store
WorkerRead(p, cat) ==
  LET data == store[getKey(cat)].str IN
  IF data # NoStr
    THEN IF cat = "flows" THEN ExtractFlows(deserialize(data)) ELSE deserialize(data)
    ELSE IF cat = "flows" THEN Arr(<<>>) ELSE EmptyObj

ReadsSharedStoreAlways(p) == TRUE
ReadsSharedStoreWithoutLocalCopy(p) == role[p] # "admin" /\ ~lfs[p]

\* which store get*() consults
ReadsSharedStore(p) == role[p] # "admin"

GetDone(p, cat, ok) ==
  last' = [NoCall EXCEPT
             !.op = "get", !.proc = p, !.cat = cat,
             !.outcome = IF ok THEN "ok" ELSE "failed",
             !.result = IF ~ok THEN Null
                        ELSE IF ReadsSharedStore(p) THEN WorkerRead(p, cat)
                        ELSE AdminRead(p, cat),
             !.readStore = ReadsSharedStore(p),
             !.storeSnap = store[getKey(cat)],
             !.localSnap = local[p][cat]]

\* getFlows/getCredentials/getSettings/getSessions
\* ok: the one awaited read (localfilesystem or client.get) did not reject
Get(p, cat, ok) ==
  /\ phase[p] = "ready"
  /\ ops < MaxOps
  /\ (role[p] = "admin" /\ ~lfs[p]) => ok
  /\ ops' = ops + 1
  /\ GetDone(p, cat, ok)
  /\ UNCHANGED <<phase, local, subs, inbox, exitCode, calls, saved>>
  /\ UNCHANGED cfgVars
  /\ RestoreSame
  /\ PkgSame
  /\ HookSame
  /\ StoreSame

\* a key SET with EX reaches its time-to-live
Expire(k) ==
  /\ store[k] # NoData
  /\ store[k].ex
  /\ store' = [store EXCEPT ![k] = NoData]
  /\ saved' = [c \in Cats |-> IF getKey(c) = k THEN [saved[c] EXCEPT !.live = FALSE]
                                              ELSE saved[c]]
  /\ wrote' = NoWrite
  /\ UNCHANGED <<fver, phase, local, subs, inbox, exitCode, calls, ops>>
  /\ NoReturn
  /\ UNCHANGED cfgVars
  /\ RestoreSame
  /\ PkgSame
  /\ HookSame

\* ------------------------------------------------------------------------
\* Worker: the flow-update subscriber callback
\* ------------------------------------------------------------------------

\* process.exit(code): the process is gone, with its connections and calls
Exit(p, code) ==
  /\ phase' = [phase EXCEPT ![p] = "exited"]
  /\ exitCode' = [exitCode EXCEPT ![p] = {code}]
  /\ subs' = subs \ {p}
  /\ inbox' = [inbox EXCEPT ![p] = <<>>]
  /\ hooks' = [hooks EXCEPT ![p] = <<>>]
  /\ calls' = [calls EXCEPT ![p] = <<>>]
  /\ pkgSubs' = pkgSubs \ {p}
  /\ pkgInbox' = [pkgInbox EXCEPT ![p] = <<>>]
  /\ passes' = [passes EXCEPT ![p] = <<>>]
  /\ sync' = [sync EXCEPT ![p] = NoSync]
  /\ timers' = [timers EXCEPT ![p] = {}]

\* `this.runtime && this.runtime.nodes && this.runtime.nodes.loadFlows`
HookAvailable(p) == runtime[p] = "hook"

OnHookErrorPropagates(p) == Exit(p, 1)

\* what the handler does when loadFlows() threw or rejected:
\* the catch block calls process.exit(0)
OnHookError(p) == Exit(p, ExitRestart)

\* subscriber.on('message'): a message of the update channel arrives and
\* the handler runs up to `await this.runtime.nodes.loadFlows()`
Receive(p) ==
  /\ phase[p] = "ready"
  /\ p \in subs
  /\ inbox[p] # <<>>
  /\ IF HookAvailable(p)
       THEN /\ hooks' = [hooks EXCEPT ![p] =
                 Append(@, [ver |-> Head(inbox[p]).ver, pc |-> "called", rver |-> 0])]
            /\ inbox' = [inbox EXCEPT ![p] = Tail(@)]
            /\ hookEvent' = NoEvent
            /\ UNCHANGED <<phase, exitCode, subs, calls>>
            /\ PkgProcSame
       ELSE /\ Exit(p, ExitRestart)
            /\ hookEvent' = [proc |-> p, how |-> "nohook"]
  /\ UNCHANGED <<local, ops, saved>>
  /\ NoReturn
  /\ UNCHANGED cfgVars
  /\ RestoreSame
  /\ PkgRestSame
  /\ pkgEvent' = NoPkgEvent
  /\ StoreSame

\* the host's loadFlows() calls back into getFlows() of this engine
HookGetFlows(p, i) ==
  /\ phase[p] = "ready"
  /\ i \in 1..Len(hooks[p])
  /\ hooks[p][i].pc = "called"
  /\ hooks' = [hooks EXCEPT ![p][i].pc = "loaded", ![p][i].rver = fver]
  /\ GetDone(p, "flows", TRUE)
  /\ hookEvent' = NoEvent
  /\ UNCHANGED <<phase, local, subs, inbox, exitCode, calls, ops, saved>>
  /\ UNCHANGED cfgVars
  /\ RestoreSame
  /\ PkgSame
  /\ StoreSame

AfterReloadRestart(p, i) == Exit(p, ExitRestart)

\* what the handler does after loadFlows() resolved: it logs and returns
AfterReload(p, i) ==
  /\ hooks' = [hooks EXCEPT ![p] = RemoveAt(@, i)]
  /\ UNCHANGED <<phase, subs, inbox, exitCode, calls>>
  /\ PkgProcSame

\* `await this.runtime.nodes.loadFlows()` resolves
HookReturn(p, i) ==
  /\ phase[p] = "ready"
  /\ i \in 1..Len(hooks[p])
  /\ hooks[p][i].pc = "loaded"
  /\ AfterReload(p, i)
  /\ hookEvent' = [proc |-> p, how |-> "returned"]
  /\ UNCHANGED <<local, ops, saved>>
  /\ NoReturn
  /\ UNCHANGED cfgVars
  /\ RestoreSame
  /\ PkgRestSame
  /\ pkgEvent' = NoPkgEvent
  /\ StoreSame

\* `await this.runtime.nodes.loadFlows()` throws or rejects
HookThrow(p, i) ==
  /\ phase[p] = "ready"
  /\ i \in 1..Len(hooks[p])
  /\ OnHookError(p)
  /\ hookEvent' = [proc |-> p, how |-> "threw"]
  /\ UNCHANGED <<local, ops, saved>>
  /\ NoReturn
  /\ UNCHANGED cfgVars
  /\ RestoreSame
  /\ PkgRestSame
  /\ pkgEvent' = NoPkgEvent
  /\ StoreSame

\* ------------------------------------------------------------------------
\* ensureRestored(type): the lazy restore of one category into the local store
\* ------------------------------------------------------------------------

\* `!this.needsRestore[type] || !this.localfilesystem`: the call returns at once
SkipsRestore(p, cat) == ~needsRestore[p][cat] \/ ~lfs[p]

\* the key of a restore; named: the active project has a name
RestoreKey(cat, ap, named) ==
  IF ap /\ named /\ cat \in {"flows", "credentials"}
    THEN getKey(ProjectName(cat)) ELSE getKey(cat)

\* `await this.client.get(key)`
RestoreSource(cat, ap, named) == store[RestoreKey(cat, ap, named)]

\* the value ensureRestored hands to localfilesystem.save*()
RestoreValue(cat, data, ap) ==
  IF cat # "flows" THEN data
  ELSE IF ap /\ data.kind = "obj" THEN Arr(data.flows)
  ELSE IF ~ap /\ data.kind = "arr" THEN Obj(data.flows, "0")
  ELSE data

MarkRestoredNever(p, cat) == UNCHANGED needsRestore

\* `this.needsRestore[type] = false`
MarkRestored(p, cat) ==
  needsRestore' = [needsRestore EXCEPT ![p][cat] = FALSE]

RestoreErrors == {"fetchError", "decodeError", "saveError"}

RestoreRethrows(outcome) == outcome \in RestoreErrors

\* the catch blocks of ensureRestored log the error and do not rethrow it:
\* whether a call that ends with this outcome throws
RestoreThrows(outcome) == FALSE

\* how a call that passed the guard and wrote nothing ends: line 902 is
\* reached unless the error left the method
RestoreEnd(p, cat, ev, outcome) ==
  /\ IF RestoreThrows(outcome) THEN UNCHANGED needsRestore
                                ELSE MarkRestored(p, cat)
  /\ restoreEvent' = [ev EXCEPT !.fetched = TRUE, !.outcome = outcome,
                                 !.threw = RestoreThrows(outcome)]

\* a string that is not the JSON text of a value: what another client of
\* the shared store, or a cut-off write, leaves under a key
Garbage == [str |-> [prefix |-> "", gz |-> TRUE, val |-> Null], ex |-> FALSE]

RestoreFrame ==
  /\ UNCHANGED <<phase, given, role, runtime, client, lfs, packageSyncTimer,
                 subs, inbox, exitCode, calls, saved>>
  /\ NoReturn
  /\ HookSame
  /\ StoreSame
  /\ PkgSame

\* ensureRestored() from its call to `this.client.get(key)`: the guard, the
\* key, and the request to the shared store
\* ap: a project is active in the local store; named: it has a name;
\* n: the number of ensureRestored calls the host has in flight at most
RestoreCall(p, cat, ap, named, n) ==
  LET ev == [NoRestoreEvent EXCEPT !.proc = p, !.cat = cat,
                                   !.needed = ~SkipsRestore(p, cat),
                                   !.key = RestoreKey(cat, ap, named),
                                   !.named = named] IN
  /\ phase[p] = "ready"
  /\ ops < MaxOps
  /\ Len(restores[p]) < n
  /\ named => ap
  /\ ap => lfs[p]
  /\ SkipsRestore(p, cat) => ~ap
  /\ ops' = ops + 1
  /\ IF SkipsRestore(p, cat)
       THEN /\ restoreEvent' = [ev EXCEPT !.outcome = "skipped"]
            /\ UNCHANGED <<restores, fetches>>
       ELSE /\ fetches' = [fetches EXCEPT ![p][cat] = @ + 1]
            /\ restores' = [restores EXCEPT ![p] = Append(@,
                 [NoRestore EXCEPT !.pc = "get", !.cat = cat, !.ap = ap,
                                   !.key = RestoreKey(cat, ap, named),
                                   !.named = named])]
            /\ restoreEvent' = NoRestoreEvent
  /\ UNCHANGED <<local, needsRestore>>
  /\ RestoreFrame

\* ensureRestored(): `await this.client.get(key)` of call i returns, and the
\* data is decoded; ok: client.get resolved
RestoreFetch(p, i, ok) ==
  LET r == restores[p][i]
      data == RestoreSource(r.cat, r.ap, r.named)
      ev == [NoRestoreEvent EXCEPT !.proc = p, !.cat = r.cat, !.needed = TRUE,
                                   !.key = r.key, !.named = r.named] IN
  /\ phase[p] = "ready"
  /\ i \in 1..Len(restores[p])
  /\ r.pc = "get"
  /\ IF ok /\ data # NoData /\ deserialize(data.str) # ParseError
       THEN /\ restores' = [restores EXCEPT ![p][i] =
                 [r EXCEPT !.pc = "save", !.from = deserialize(data.str),
                           !.val = RestoreValue(r.cat, deserialize(data.str), r.ap)]]
            /\ restoreEvent' = NoRestoreEvent
            /\ UNCHANGED needsRestore
       ELSE /\ RestoreEnd(p, r.cat, ev,
                 IF ~ok THEN "fetchError"
                 ELSE IF data = NoData THEN "miss" ELSE "decodeError")
            /\ restores' = [restores EXCEPT ![p] = RemoveAt(@, i)]
  /\ UNCHANGED <<local, fetches, ops>>
  /\ RestoreFrame

\* ensureRestored(): `await this.localfilesystem.save*(data)` of call i
\* returns; a rejection is logged, and the flag is cleared either way
RestoreSave(p, i, ok) ==
  LET r == restores[p][i] IN
  /\ phase[p] = "ready"
  /\ i \in 1..Len(restores[p])
  /\ r.pc = "save"
  /\ local' = IF ok THEN [local EXCEPT ![p][r.cat] = r.val] ELSE local
  /\ RestoreEnd(p, r.cat,
                [NoRestoreEvent EXCEPT !.proc = p, !.cat = r.cat, !.needed = TRUE,
                                       !.wrote = ok, !.from = r.from, !.to = r.val,
                                       !.key = r.key, !.named = r.named],
                IF ok THEN "hit" ELSE "saveError")
  /\ restores' = [restores EXCEPT ![p] = RemoveAt(@, i)]
  /\ UNCHANGED <<fetches, ops>>
  /\ RestoreFrame

\* the string under a key of the shared store is damaged
Corrupt(k) ==
  /\ store[k] \notin {NoData, Garbage}
  /\ store' = [store EXCEPT ![k] = Garbage]
  /\ saved' = [c \in Cats |-> IF getKey(c) = k THEN [saved[c] EXCEPT !.live = FALSE]
                                              ELSE saved[c]]
  /\ wrote' = NoWrite
  /\ UNCHANGED <<fver, phase, local, subs, inbox, exitCode, calls, ops>>
  /\ NoReturn
  /\ UNCHANGED cfgVars
  /\ RestoreSame
  /\ PkgSame
  /\ HookSame

\* ------------------------------------------------------------------------
\* Library entries
\* ------------------------------------------------------------------------

\* number of library calls (and other API calls) the host makes in the
\* specification of the library
MaxLibOps == 3

IsPrefix(a, b) == Len(a) <= Len(b) /\ SubSeq(b, 1, Len(a)) = a

\* `path.endsWith('/') || !path`
IsDirectory(path) == path = <<>> \/ path[Len(path)] \in DirSegments

KeyMatchesType(k, key) ==
  Len(k) = 4 /\ k[1] = key[1] /\ k[2] = key[2] /\ k[3] = key[3]

\* key k matches the pattern `${key}*`
KeyMatches(k, key) ==
  /\ Len(k) = 4
  /\ k[1] = key[1] /\ k[2] = key[2] /\ k[3] = key[3]
  /\ IsPrefix(key[4], k[4])

\* `await this.client.keys(pattern)`
ClientKeys(key) ==
  {k \in DOMAIN store : store[k] # NoData /\ KeyMatches(k, key)}

LibFrame ==
  /\ UNCHANGED <<phase, local, subs, inbox, exitCode, saved>>
  /\ UNCHANGED cfgVars
  /\ RestoreSame
  /\ HookSame
  /\ PkgProcSame
  /\ UNCHANGED <<keyPrefix, syncPackages, packageHelper, lastKnownPackages,
                 manifest, modules, pkgStore, now, indexVars>>
  /\ pkgEvent' = NoPkgEvent

LibReturn(p, key, outcome) ==
  [NoCall EXCEPT !.op = "getLibraryEntry", !.proc = p, !.key = key,
                 !.outcome = outcome]

\* saveLibraryEntry(type, path, meta, body); ok: client.set resolved
saveLibraryEntry(p, type, path, meta, body, ok) ==
  LET key == getLibraryKey(type, path)
      entry == Entry(meta, body) IN
  /\ phase[p] = "ready"
  /\ ops < MaxLibOps
  /\ ops' = ops + 1
  /\ IF ok
       THEN /\ StoreSet(key, serialize(entry, EnableCompression), FALSE, p)
            /\ hist' = [hist EXCEPT !.lib =
                 {x \in @ : x.key # key} \cup {[key |-> key, entry |-> entry]}]
       ELSE /\ StoreSame
            /\ UNCHANGED hist
  /\ last' = [NoCall EXCEPT !.op = "saveLibraryEntry", !.proc = p, !.key = key,
                            !.outcome = IF ok THEN "ok" ELSE "failed"]
  /\ UNCHANGED calls
  /\ LibFrame

\* getLibraryEntry(type, path) up to the end of its first await: the
\* client.get of a single entry, or the client.keys of a directory listing;
\* ok: that call resolved
getLibraryEntry(p, type, path, ok) ==
  LET key == getLibraryKey(type, path)
      data == store[key]
      keys == ClientKeys(key) IN
  /\ phase[p] = "ready"
  /\ ops < MaxLibOps
  /\ calls[p] = <<>>
  /\ ops' = ops + 1
  /\ IF ~ok
       THEN /\ last' = [LibReturn(p, key, "failed") EXCEPT !.dir = IsDirectory(path)]
            /\ UNCHANGED calls
       ELSE IF IsDirectory(path)
         THEN IF keys = {}
                THEN /\ last' = [LibReturn(p, key, "ok") EXCEPT
                                   !.dir = TRUE, !.snap = hist.lib]
                     /\ UNCHANGED calls
                ELSE /\ calls' = [calls EXCEPT ![p] =
                          <<[pc |-> "list", proc |-> p, key |-> key, keys |-> keys,
                             entries |-> <<>>, snap |-> hist.lib]>>]
                     /\ NoReturn
         ELSE /\ last' = IF data = NoData THEN LibReturn(p, key, "notfound")
                         ELSE [LibReturn(p, key, "ok") EXCEPT
                                 !.result = deserialize(data.str)]
              /\ UNCHANGED calls
  /\ UNCHANGED hist
  /\ StoreSame
  /\ LibFrame

\* getLibraryEntry(): one `await this.client.get(k)` of the loop over the
\* keys of a listing; client.keys returns the keys in no particular order
LibraryListGet(p, i, k, ok) ==
  LET c == calls[p][i]
      data == store[k]
      entries == IF data # NoData THEN Append(c.entries, deserialize(data.str))
                 ELSE c.entries
      rest == c.keys \ {k} IN
  /\ phase[p] = "ready"
  /\ i \in 1..Len(calls[p])
  /\ c.pc = "list"
  /\ k \in c.keys
  /\ IF ~ok
       THEN /\ last' = [LibReturn(p, c.key, "failed") EXCEPT !.dir = TRUE]
            /\ calls' = [calls EXCEPT ![p] = RemoveAt(@, i)]
       ELSE IF rest = {}
         THEN /\ last' = [LibReturn(p, c.key, "ok") EXCEPT
                            !.dir = TRUE, !.entries = entries, !.snap = c.snap]
              /\ calls' = [calls EXCEPT ![p] = RemoveAt(@, i)]
         ELSE /\ calls' = [calls EXCEPT ![p][i] =
                   [c EXCEPT !.keys = rest, !.entries = entries]]
              /\ NoReturn
  /\ UNCHANGED <<hist, ops>>
  /\ StoreSame
  /\ LibFrame

\* ------------------------------------------------------------------------
\* Package synchronization
\* ------------------------------------------------------------------------

\* `pkg.startsWith('node-red-contrib-') || pkg.startsWith('@')`
IsPlugin(pkg) == pkg[1] = "node-red-contrib-" \/ pkg[1] = "@"

\* the plugin names among the dependencies of a package.json (m: {} when the
\* file could not be read, {dependencies} otherwise)
InstalledPackages(m) == {pkg \in UNION m : IsPlugin(pkg)}

\* extractPackages(configJson): the keys of configJson.nodes that do not
\* start with 'node-red/'
extractPackages(configJson) ==
  IF configJson.kind = "config"
    THEN {pkg \in configJson.nodes : pkg[1] # "node-red/"}
    ELSE {}

hasPackageChangesBySize(current, known) ==
  known = {} \/ \E k \in known : Cardinality(current) # Cardinality(k)

\* hasPackageChanges(currentPackages) against lastKnownPackages
hasPackageChanges(current, known) ==
  \/ known = {}
  \/ \E k \in known :
       \/ Cardinality(current) # Cardinality(k)
       \/ \E pkg \in current : pkg \notin k

PackageDiffInstallsAll(admin, worker) ==
  [toInstall |-> admin, toUninstall |-> {pkg \in worker : pkg \notin admin}]

\* the diff of a worker pass: admin is the list the admin announced, worker
\* the plugin names of the worker's package.json
PackageDiff(admin, worker) ==
  [toInstall |-> {pkg \in admin : pkg \notin worker},
   toUninstall |-> {pkg \in worker : pkg \notin admin}]

installPackagesNothing(installed, packages) == installed

\* PackageHelper.installPackages: `npm install --no-save <packages>` puts the
\* packages under userDir and leaves package.json as it is
installPackages(installed, packages) == installed \cup packages

\* PackageHelper.uninstallPackages: removes the packages from userDir
uninstallPackages(installed, packages) == installed \ packages

\* the package.json files a worker's userDir may hold when it starts: none,
\* one that differs from every list an admin announces, one that matches
StaleManifests == {{}, {{Red, Green, Express}}}
WorkerManifests == StaleManifests \cup {{{Red, Express}}}

\* the dependencies the plugin-install subsystem of an admin may write
AdminManifests == {{Red, Express}, {Blue, Express}, {Red, Blue}}

PkgFrame ==
  /\ UNCHANGED <<given, role, runtime, client, lfs, local, needsRestore,
                 packageSyncTimer, subs, inbox, calls, ops, saved>>
  /\ NoReturn
  /\ HookSame
  /\ StoreSame
  /\ RestoreSame

\* init(): `if (!settings.userDir) throw`, `new PackageHelper(settings.userDir)`
\* ud: settings.userDir is set; mf: the package.json a worker's userDir holds
InitPackages(p, ud, mf) ==
  /\ phase[p] = "packages"
  /\ lfs[p] => ud
  /\ IF role[p] = "worker" /\ ud /\ ~hist.restarted[p]
       THEN /\ mf \in WorkerManifests
            /\ manifest' = [manifest EXCEPT ![p] = mf]
            /\ modules' = [modules EXCEPT ![p] = UNION mf]
       ELSE /\ mf = manifest[p]
            /\ UNCHANGED <<manifest, modules>>
  /\ packageHelper' = [packageHelper EXCEPT ![p] = ud]
  /\ phase' = [phase EXCEPT ![p] =
       IF ~ud THEN "failed"
       ELSE IF role[p] = "worker" THEN "pkgSubscribe" ELSE "pkgSeed"]
  /\ UNCHANGED <<keyPrefix, syncPackages, lastKnownPackages, pkgStore, pkgSubs, pkgInbox,
                 passes, sync, timers, now, indexVars, hist, exitCode>>
  /\ pkgEvent' = NoPkgEvent
  /\ PkgFrame

\* worker init(): `packageSubscriber = client.duplicate()`,
\* `await packageSubscriber.subscribe(packageChannel)` and the registration
\* of the message handler
InitPackageSubscribe(p, ok) ==
  /\ phase[p] = "pkgSubscribe"
  /\ pkgSubs' = IF ok THEN pkgSubs \cup {p} ELSE pkgSubs
  /\ phase' = [phase EXCEPT ![p] = IF ok THEN "startupSync" ELSE "failed"]
  /\ UNCHANGED <<keyPrefix, syncPackages, packageHelper, lastKnownPackages, manifest,
                 modules, pkgStore, pkgInbox, passes, sync, timers, now, indexVars, hist,
                 exitCode>>
  /\ pkgEvent' = NoPkgEvent
  /\ PkgFrame

\* admin init(): `client.get(getKey('config'))` and the seeding of
\* lastKnownPackages; a rejection of the get leaves init()
InitSeedPackages(p, ok) ==
  LET data == store[getKey("config")] IN
  /\ phase[p] = "pkgSeed"
  /\ lastKnownPackages' = [lastKnownPackages EXCEPT ![p] =
       IF ~ok THEN @
       ELSE IF data = NoData \/ deserialize(data.str) = ParseError THEN {{}}
       ELSE {extractPackages(deserialize(data.str))}]
  /\ phase' = [phase EXCEPT ![p] = IF ok THEN "ready" ELSE "failed"]
  /\ UNCHANGED <<keyPrefix, syncPackages, packageHelper, manifest, modules, pkgStore,
                 pkgSubs, pkgInbox, passes, sync, timers, now, indexVars, hist, exitCode>>
  /\ pkgEvent' = NoPkgEvent
  /\ PkgFrame

\* the plugin names a worker pass reads from package.json; a failed read is
\* taken as a fresh install
WorkerPackages(p, readOk) ==
  IF readOk THEN InstalledPackages(manifest[p]) ELSE {}

StartsInstallerAlways(d) == TRUE

\* `packagesToUninstall.length > 0`, `packagesToInstall.length > 0`: a pass
\* invokes the installer when one of the two lists has an entry
StartsInstaller(d) == d.toInstall # {} \/ d.toUninstall # {}

NewPassInstallFirst(trigger, admin, d) ==
  [trigger |-> trigger, admin |-> admin, toInstall |-> d.toInstall,
   toUninstall |-> d.toUninstall,
   pc |-> IF d.toInstall # {} THEN "install" ELSE "uninstall"]

\* a worker pass that has computed its diff
NewPass(trigger, admin, d) ==
  [trigger |-> trigger, admin |-> admin, toInstall |-> d.toInstall,
   toUninstall |-> d.toUninstall,
   pc |-> IF d.toUninstall # {} THEN "uninstall" ELSE "install"]

DiffEvent(p, trigger, admin, worker, d) ==
  [NoPkgEvent EXCEPT !.proc = p, !.kind = "diff", !.trigger = trigger,
                     !.admin = admin, !.worker = worker,
                     !.toInstall = d.toInstall, !.toUninstall = d.toUninstall]

\* worker init(): the startup sync from `client.get('nodered:packages')` to
\* the first installer invocation; getOk: the get resolved; readOk:
\* package.json could be read
StartupSync(p, getOk, readOk) ==
  /\ phase[p] = "startupSync"
  /\ readOk = (manifest[p] # {})
  /\ IF ~getOk \/ pkgStore = {}
       THEN /\ phase' = [phase EXCEPT ![p] = "ready"]
            /\ pkgEvent' = NoPkgEvent
            /\ UNCHANGED passes
       ELSE LET admin == CHOOSE a \in pkgStore : TRUE
                worker == WorkerPackages(p, readOk)
                d == PackageDiff(admin, worker) IN
            /\ pkgEvent' = [DiffEvent(p, "startup", admin, worker, d)
                              EXCEPT !.key = packagesKey]
            /\ IF ~StartsInstaller(d)
                 THEN /\ phase' = [phase EXCEPT ![p] = "ready"]
                      /\ UNCHANGED passes
                 ELSE /\ phase' = [phase EXCEPT ![p] = "startupPass"]
                      /\ passes' = [passes EXCEPT ![p] =
                           Append(@, NewPass("startup", admin, d))]
  /\ UNCHANGED <<keyPrefix, syncPackages, packageHelper, lastKnownPackages, manifest,
                 modules, pkgStore, pkgSubs, pkgInbox, sync, timers, now, indexVars, hist,
                 exitCode>>
  /\ PkgFrame

\* Payloads of the package channel. A payload is held as what the handler
\* makes of it: the list of names that `JSON.parse`, `new Set(...)` and the
\* `for ... of` loops iterate over.
\* a payload on which one of them throws: text that is not JSON, or JSON
\* that is not iterable (an object, a number, null)
Unparsable == {<<"!", "unparsable">>}
\* the JSON string "ab": a string iterates character by character
JsonString == {<<"", "a">>, <<"", "b">>}

\* `JSON.parse(message)`, `new Set(adminPackages)` or
\* `for (const pkg of adminPackages)` throws
ParseThrows(msg) == msg = Unparsable

\* some client of the shared store publishes a payload on the package channel
ForeignPublish(msg) ==
  /\ hist.pubs < MaxOps
  /\ pkgSubs # {}
  /\ pkgInbox' = [q \in Procs |->
       IF q \in pkgSubs THEN Append(pkgInbox[q], msg) ELSE pkgInbox[q]]
  /\ hist' = [hist EXCEPT !.pubs = @ + 1]
  /\ UNCHANGED <<keyPrefix, syncPackages, packageHelper, lastKnownPackages, manifest,
                 modules, pkgStore, pkgSubs, passes, sync, timers, now, indexVars, exitCode,
                 phase>>
  /\ pkgEvent' = NoPkgEvent
  /\ PkgFrame

PassFailureRestarts(p) == Exit(p, ExitRestart)

\* the catch block of the notification handler: `process.exit(1)`
PassFailure(p) == Exit(p, ExitFailure)

\* packageSubscriber.on('message'): the handler from the arrival of a message
\* to its first installer invocation
PackageUpdate(p, readOk) ==
  LET admin == Head(pkgInbox[p])
      worker == WorkerPackages(p, readOk)
      d == PackageDiff(admin, worker) IN
  /\ p \in pkgSubs
  /\ pkgInbox[p] # <<>>
  /\ readOk = (manifest[p] # {})
  /\ IF ParseThrows(admin)
       THEN /\ PassFailure(p)
            /\ pkgEvent' = [NoPkgEvent EXCEPT !.proc = p, !.kind = "failed",
                                              !.trigger = "notify", !.admin = admin]
            /\ UNCHANGED <<given, role, runtime, client, lfs, local, needsRestore,
                           packageSyncTimer, ops, saved>>
            /\ NoReturn
            /\ hookEvent' = NoEvent
            /\ StoreSame
            /\ RestoreSame
       ELSE /\ pkgInbox' = [pkgInbox EXCEPT ![p] = Tail(@)]
            /\ pkgEvent' = DiffEvent(p, "notify", admin, worker, d)
            /\ passes' = IF ~StartsInstaller(d) THEN passes
                         ELSE [passes EXCEPT ![p] = Append(@, NewPass("notify", admin, d))]
            /\ UNCHANGED <<pkgSubs, sync, timers, exitCode, phase>>
            /\ PkgFrame
  /\ UNCHANGED <<keyPrefix, syncPackages, packageHelper, lastKnownPackages, manifest,
                 modules, pkgStore, now, indexVars, hist>>


\* an installer invocation of pass i of worker p returns; ok: it resolved
InstallerReturn(p, i, ok) ==
  LET w == passes[p][i]
      more == ok /\ w.pc = "uninstall" /\ w.toInstall # {}
      ev == [NoPkgEvent EXCEPT !.proc = p, !.trigger = w.trigger,
                               !.admin = w.admin, !.toInstall = w.toInstall,
                               !.toUninstall = w.toUninstall,
                               !.batch = w.pc] IN
  /\ i \in 1..Len(passes[p])
  /\ phase[p] \in {"startupPass", "ready"}
  /\ modules' = [modules EXCEPT ![p] =
       IF ~ok THEN @
       ELSE IF w.pc = "uninstall" THEN uninstallPackages(@, w.toUninstall)
       ELSE installPackages(@, w.toInstall)]
  /\ hist' = [hist EXCEPT !.failed[p] = @ \/ ~ok]
  /\ pkgEvent' = [ev EXCEPT !.kind = IF ~ok THEN "failed"
                                     ELSE IF more THEN "step" ELSE "done"]
  /\ IF ~ok /\ w.trigger = "notify"
       THEN /\ PassFailure(p)
            /\ UNCHANGED <<given, role, runtime, client, lfs, needsRestore,
                           packageSyncTimer>>
       ELSE /\ passes' = [passes EXCEPT ![p] =
                 IF more THEN [@ EXCEPT ![i].pc = "install"] ELSE RemoveAt(@, i)]
            /\ phase' = [phase EXCEPT ![p] =
                 IF w.trigger = "startup" /\ ~more THEN "ready" ELSE @]
            /\ UNCHANGED <<exitCode, subs, inbox, hooks, calls, pkgSubs,
                           pkgInbox, sync, timers>>
            /\ UNCHANGED <<given, role, runtime, client, lfs, needsRestore,
                           packageSyncTimer>>
  /\ UNCHANGED <<keyPrefix, syncPackages, packageHelper, lastKnownPackages, manifest,
                 pkgStore, now, indexVars>>
  /\ UNCHANGED <<local, ops, saved>>
  /\ NoReturn
  /\ hookEvent' = NoEvent
  /\ StoreSame
  /\ RestoreSame

\* the plugin-install subsystem of the host rewrites the admin's package.json
ManifestWrite(p, deps) ==
  /\ phase[p] = "ready"
  /\ role[p] = "admin"
  /\ packageHelper[p]
  /\ deps \in AdminManifests
  /\ manifest[p] # {deps}
  /\ manifest' = [manifest EXCEPT ![p] = {deps}]
  /\ UNCHANGED <<keyPrefix, syncPackages, packageHelper, lastKnownPackages, modules,
                 pkgStore, pkgSubs, pkgInbox, passes, sync, timers, now, indexVars, hist,
                 exitCode, phase>>
  /\ pkgEvent' = NoPkgEvent
  /\ PkgFrame

\* package.json of the admin's userDir is removed, or left unparsable while
\* the host rewrites it
ManifestLost(p) ==
  /\ phase[p] = "ready"
  /\ role[p] = "admin"
  /\ packageHelper[p]
  /\ manifest[p] # {}
  /\ manifest' = [manifest EXCEPT ![p] = {}]
  /\ UNCHANGED <<keyPrefix, syncPackages, packageHelper, lastKnownPackages, modules,
                 pkgStore, pkgSubs, pkgInbox, passes, sync, timers, now, indexVars, hist,
                 exitCode, phase>>
  /\ pkgEvent' = NoPkgEvent
  /\ PkgFrame

ReadsManifestAlways(p, readOk) == TRUE

\* handlePackageSync(): the pass goes on to the comparison when there is a
\* packageHelper and package.json could be read and parsed; otherwise it
\* logs and returns
ReadsManifest(p, readOk) == packageHelper[p] /\ readOk

\* the debounce timeout of process p fires and handlePackageSync() runs to its
\* comparison; readOk: package.json could be read
TimerFire(p, due, readOk) ==
  LET current == InstalledPackages(manifest[p])
      changed == hasPackageChanges(current, lastKnownPackages[p]) IN
  /\ phase[p] \in {"ready", "closed"}
  /\ due \in timers[p]
  /\ sync[p].pc = "free"
  /\ readOk = (manifest[p] # {})
  /\ timers' = [timers EXCEPT ![p] = @ \ {due}]
  /\ hist' = [hist EXCEPT !.starts = Append(@, now), !.compared[p] = TRUE,
                          !.skipped = @ \/ ~ReadsManifest(p, readOk)]
  /\ IF ReadsManifest(p, readOk)
       THEN /\ pkgEvent' = [NoPkgEvent EXCEPT
                 !.proc = p, !.kind = "compared", !.admin = current,
                 !.known = lastKnownPackages[p], !.changed = changed,
                 !.first = ~hist.compared[p]]
            /\ sync' = [sync EXCEPT ![p] =
                 IF changed THEN [pc |-> "publish", set |-> current] ELSE @]
       ELSE /\ pkgEvent' = [NoPkgEvent EXCEPT !.proc = p, !.kind = "skipped"]
            /\ UNCHANGED sync
  /\ UNCHANGED <<keyPrefix, syncPackages, packageHelper, lastKnownPackages, manifest,
                 modules, pkgStore, pkgSubs, pkgInbox, passes, now, indexVars, exitCode,
                 phase>>
  /\ PkgFrame

\* handlePackageSync(): `await this.client.publish(packageChannel, ...)`
SyncPublish(p, ok) ==
  /\ phase[p] \in {"ready", "closed"}
  /\ ~client[p] => ~ok
  /\ sync[p].pc = "publish"
  /\ IF ok
       THEN /\ pkgInbox' = [q \in Procs |->
                 IF q \in pkgSubs THEN Append(pkgInbox[q], sync[p].set)
                 ELSE pkgInbox[q]]
            /\ sync' = [sync EXCEPT ![p].pc = "set"]
            /\ hist' = [hist EXCEPT
                 !.published = {sync[p].set}, !.pubs = @ + 1,
                 !.got = [q \in Procs |-> IF q \in pkgSubs THEN @[q] + 1 ELSE @[q]]]
            /\ pkgEvent' = [NoPkgEvent EXCEPT !.proc = p, !.kind = "published",
                                              !.admin = sync[p].set]
       ELSE /\ sync' = [sync EXCEPT ![p] = NoSync]
            /\ pkgEvent' = NoPkgEvent
            /\ UNCHANGED <<pkgInbox, hist>>
  /\ UNCHANGED <<keyPrefix, syncPackages, packageHelper, lastKnownPackages, manifest,
                 modules, pkgStore, pkgSubs, passes, timers, now, indexVars, exitCode,
                 phase>>
  /\ PkgFrame

\* handlePackageSync(): `await this.client.set('nodered:packages', ...)` and
\* `this.lastKnownPackages = installedPackages`
SyncSet(p, ok) ==
  /\ phase[p] = "ready"
  /\ sync[p].pc = "set"
  /\ sync' = [sync EXCEPT ![p] = NoSync]
  /\ IF ok
       THEN /\ pkgStore' = {sync[p].set}
            /\ lastKnownPackages' = [lastKnownPackages EXCEPT ![p] = {sync[p].set}]
            /\ pkgEvent' = [NoPkgEvent EXCEPT !.proc = p, !.kind = "stored",
                                              !.admin = sync[p].set,
                                              !.key = packagesKey]
       ELSE /\ UNCHANGED <<pkgStore, lastKnownPackages>>
            /\ pkgEvent' = NoPkgEvent
  /\ UNCHANGED <<keyPrefix, syncPackages, packageHelper, manifest, modules, pkgSubs,
                 pkgInbox, passes, timers, now, indexVars, hist, exitCode, phase>>
  /\ PkgFrame

\* the admin process is stopped and started again: what it held in memory is
\* gone, its disk and the shared store stay
Restart(p) ==
  /\ phase[p] = "ready"
  /\ role[p] = "admin"
  /\ ~hist.restarted[p]
  /\ calls[p] = <<>>
  /\ sync[p].pc = "free"
  /\ timers[p] = {}
  /\ pkgStore # {}
  /\ phase' = [phase EXCEPT ![p] = "new"]
  /\ role' = [role EXCEPT ![p] = "unset"]
  /\ given' = [given EXCEPT ![p] = "notyet"]
  /\ runtime' = [runtime EXCEPT ![p] = "none"]
  /\ client' = [client EXCEPT ![p] = FALSE]
  /\ lfs' = [lfs EXCEPT ![p] = FALSE]
  /\ needsRestore' = [needsRestore EXCEPT ![p] = [c \in Cats |-> TRUE]]
  /\ packageSyncTimer' = [packageSyncTimer EXCEPT ![p] = FALSE]
  /\ syncPackages' = [syncPackages EXCEPT ![p] = FALSE]
  /\ UNCHANGED keyPrefix
  /\ packageHelper' = [packageHelper EXCEPT ![p] = FALSE]
  /\ lastKnownPackages' = [lastKnownPackages EXCEPT ![p] = {}]
  /\ hist' = [hist EXCEPT !.restarted[p] = TRUE, !.compared[p] = FALSE]
  /\ UNCHANGED <<local, subs, inbox, calls, ops, saved, exitCode, manifest,
                 modules, pkgStore, pkgSubs, pkgInbox, passes, sync, timers, now, indexVars>>
  /\ pkgEvent' = NoPkgEvent
  /\ NoReturn
  /\ HookSame
  /\ StoreSame
  /\ RestoreSame

\* close(): the two subscribers and the client quit; the debounce timeout is
\* left as it is. The host closes an engine that has no call in flight.
close(p) ==
  /\ phase[p] = "ready"
  /\ calls[p] = <<>> /\ sync[p].pc = "free"
  /\ passes[p] = <<>> /\ hooks[p] = <<>> /\ restores[p] = <<>>
  /\ phase' = [phase EXCEPT ![p] = "closed"]
  /\ client' = [client EXCEPT ![p] = FALSE]
  /\ subs' = subs \ {p}
  /\ pkgSubs' = pkgSubs \ {p}
  /\ inbox' = [inbox EXCEPT ![p] = <<>>]
  /\ pkgInbox' = [pkgInbox EXCEPT ![p] = <<>>]
  /\ UNCHANGED <<given, role, runtime, lfs, local, needsRestore, packageSyncTimer,
                 calls, ops, saved, exitCode>>
  /\ UNCHANGED <<keyPrefix, syncPackages, packageHelper, lastKnownPackages, manifest,
                 modules, pkgStore, passes, sync, timers, now, indexVars, hist>>
  /\ pkgEvent' = NoPkgEvent
  /\ NoReturn
  /\ HookSame
  /\ StoreSame
  /\ RestoreSame

\* the earliest of a non-empty set of times
Earliest(ts) == CHOOSE t \in ts : \A u \in ts : t <= u

\* time passes: by TickMs, or up to the moment the next timeout is due. A
\* timeout that is due fires before time goes on.
Tick ==
  LET dues == UNION {timers[p] : p \in Procs} IN
  /\ now < MaxTime
  /\ \A due \in dues : now < due
  /\ now' = IF dues # {} /\ Earliest(dues) < now + TickMs
              THEN Earliest(dues) ELSE now + TickMs
  /\ UNCHANGED <<keyPrefix, syncPackages, packageHelper, lastKnownPackages, manifest,
                 modules, pkgStore, pkgSubs, pkgInbox, passes, sync, timers,
                 hist, exitCode, phase, indexVars>>
  /\ pkgEvent' = NoPkgEvent
  /\ PkgFrame

\* ------------------------------------------------------------------------
\* The storage module and its projects proxy
\* ------------------------------------------------------------------------

\* the properties the host reads from storageModule.projects: the three the
\* proxy has a default for, one more method of the projects module, and a
\* name the projects module does not have
RealMethods == {"getActiveProject", "getGlobalGitUser", "flowFileExists",
                "getProjects"}
Props == RealMethods \cup {"absent"}

\* what a method of the projects module of the host's localfilesystem does
\* when it is called: it returns a value, null or undefined, or a promise
\* (resolved with a value or with null, or rejected), or it throws
Behaviours == {"value", "null", "throws", "resolves", "resolvesNull",
               "rejects"}

\* how a call ended for its caller, and with what
Answer(p, prop, ends, value) ==
  [proc |-> p, prop |-> prop, ready |-> realProjectsModule[p],
   forwarded |-> FALSE, ends |-> ends, value |-> value]

\* the same, of a call that ran the method of the projects module
Forwarded(a) == [a EXCEPT !.forwarded = TRUE]

\* the function the get trap returns while realProjectsModule is not set
SafeDefault(p, prop) ==
  CASE prop = "getActiveProject" -> Answer(p, prop, "returns", "null")
    [] prop = "getGlobalGitUser" ->
         Answer(p, prop, "returns",
                IF cachedGitUser[p] THEN "gitUser" ELSE "false")
    [] prop = "flowFileExists" -> Answer(p, prop, "returns", "false")
    [] OTHER -> Answer(p, prop, "returns", "{}")

\* a call of the method of the projects module itself
Unwrapped(p, prop, b) ==
  CASE b = "value" -> Answer(p, prop, "returns", "value")
    [] b = "null" -> Answer(p, prop, "returns", "null")
    [] b = "throws" -> Answer(p, prop, "throws", "error")
    [] b = "resolves" -> Answer(p, prop, "resolves", "value")
    [] b = "resolvesNull" -> Answer(p, prop, "resolves", "null")
    [] OTHER -> Answer(p, prop, "rejects", "error")

\* the wrapper the get trap returns for a function of the projects module
Wrapped(p, prop, b) ==
  CASE b = "value" -> Answer(p, prop, "returns", "value")
    [] b = "null" -> Answer(p, prop, "returns", "{}")
    [] b = "throws" -> Answer(p, prop, "returns", "null")
    [] b = "resolves" -> Answer(p, prop, "resolves", "value")
    [] b = "resolvesNull" -> Answer(p, prop, "resolves", "{}")
    [] OTHER -> Answer(p, prop, "resolves", "null")

\* the get trap of projectsProxy followed by the call of what it returned
ProxyGet(p, prop, b) ==
  IF ~realProjectsModule[p] THEN SafeDefault(p, prop)
  ELSE IF prop = "getGlobalGitUser"
         THEN IF cachedGitUser[p] THEN Answer(p, prop, "returns", "gitUser")
              ELSE Forwarded(Unwrapped(p, prop, b))
  ELSE IF prop \in RealMethods THEN Forwarded(Wrapped(p, prop, b))
  ELSE Answer(p, prop, "throws", "TypeError")

\* the engine and everything but the module's own state stay as they are
IndexFrame ==
  /\ UNCHANGED <<keyPrefix, phase, given, role, runtime, client, lfs, local,
                 needsRestore, packageSyncTimer, subs, inbox, exitCode, calls,
                 ops, saved, syncPackages, packageHelper, lastKnownPackages,
                 manifest, modules, pkgStore, pkgSubs, pkgInbox, passes, sync,
                 timers, now, hist>>
  /\ NoReturn
  /\ HookSame
  /\ StoreSame
  /\ RestoreSame
  /\ pkgEvent' = NoPkgEvent

\* the host calls projects[prop]() on the reference it copied from the
\* storage module when it loaded it. b: what the method of the projects
\* module does, when the call gets that far
ProxyCall(p, prop, b) ==
  /\ (realProjectsModule[p] /\ prop \in RealMethods
        /\ ~(prop = "getGlobalGitUser" /\ cachedGitUser[p]))
       \/ b = "value"
  /\ answer' = ProxyGet(p, prop, b)
  /\ UNCHANGED <<realProjectsModule, cachedGitUser>>
  /\ IndexFrame

\* storageModule.init after `await storage.init(settings, runtime)` has
\* resolved. projects: the localfilesystem of the engine has a projects module
ModuleInit(p, projects) ==
  /\ phase[p] = "ready"
  /\ ~realProjectsModule[p]
  /\ projects => lfs[p]
  /\ realProjectsModule' = [realProjectsModule EXCEPT ![p] = projects]
  /\ UNCHANGED <<cachedGitUser, answer>>
  /\ IndexFrame

\* updateGitUserCache(), run at the end of storageModule.init and after every
\* saveSettings. gitUser: the settings of the local store name a git user
updateGitUserCache(p, gitUser) ==
  /\ phase[p] = "ready"
  /\ realProjectsModule[p]
  /\ cachedGitUser' = [cachedGitUser EXCEPT ![p] = @ \/ gitUser]
  /\ UNCHANGED <<realProjectsModule, answer>>
  /\ IndexFrame

\* ------------------------------------------------------------------------
\* Specification
\* ------------------------------------------------------------------------

\* The storage operations of a deployment that sets syncPackages: false, so
\* that init() skips its package block and saveSettings arms no timer.
Next ==
  \/ \E p \in Procs : \E r \in RoleInputs(p), rt \in RuntimeInputs(p),
        pingOk \in BOOLEAN, ud \in BOOLEAN, lfsOk \in BOOLEAN,
        lf \in LocalFlowsAtStart :
          InitStart(p, r, rt, pingOk, ud, lfsOk, lf, FALSE)
  \/ \E p \in Procs, ok \in BOOLEAN : InitSeedFlowsCheck(p, ok)
  \/ \E p \in Procs, ok \in BOOLEAN : InitSeedFlowsSet(p, ok)
  \/ \E p \in Procs, ok \in BOOLEAN : InitSeedCredsCheck(p, ok)
  \/ \E p \in Procs, ok \in BOOLEAN : InitSeedCredsSet(p, ok)
  \/ \E p \in Procs, ok \in BOOLEAN : InitSubscribe(p, ok)
  \/ \E p \in Procs, cat \in Cats : \E v \in SaveInputs(cat), skip \in BOOLEAN,
        ap \in BOOLEAN, localOk \in BOOLEAN : SaveLocal(p, cat, v, skip, ap, localOk, 1)
  \/ \E p \in Procs, ok \in BOOLEAN : SaveMirror(p, 1, ok)
  \/ \E p \in Procs, ok \in BOOLEAN : SavePublish(p, 1, ok)
  \/ \E p \in Procs, cat \in Cats, ok \in BOOLEAN : Get(p, cat, ok)
  \/ \E k \in Keys : Expire(k)
  \/ \E p \in Procs : Receive(p)
  \/ \E p \in Procs, i \in 1..MaxOps : HookGetFlows(p, i)
  \/ \E p \in Procs, i \in 1..MaxOps : HookReturn(p, i)
  \/ \E p \in Procs, i \in 1..MaxOps : HookThrow(p, i)

Spec == Init /\ [][Next]_vars

\* The lazy restore exercised on its own: both processes start with a local
\* store, the admin seeds or saves flows, and either process calls
\* ensureRestored and reads.
RestoreNext ==
  \/ \E p \in Procs : \E r \in RoleInputs(p) \cap {"admin", "worker"},
        lfsOk \in BOOLEAN :
          \E lf \in LocalInputs(r) \cup {Arr(<<>>)} :
            InitStart(p, r, "hook", TRUE, TRUE, lfsOk, lf, FALSE)
  \/ \E p \in Procs : InitSeedFlowsCheck(p, TRUE)
  \/ \E p \in Procs : InitSeedFlowsSet(p, TRUE)
  \/ \E p \in Procs : InitSeedCredsCheck(p, TRUE)
  \/ \E p \in Procs : InitSeedCredsSet(p, TRUE)
  \/ \E p \in Procs : InitSubscribe(p, TRUE)
  \/ \E p \in Procs, cat \in {"flows", "sessions"} : \E v \in SaveInputs(cat),
        ap \in BOOLEAN :
          role[p] = "admin" /\ SaveLocal(p, cat, v, FALSE, ap, TRUE, 1)
  \/ \E p \in Procs : SaveMirror(p, 1, TRUE)
  \/ \E p \in Procs : SavePublish(p, 1, TRUE)
  \/ \E p \in Procs : role[p] = "worker" /\ Get(p, "flows", TRUE)
  \/ \E p \in Procs, cat \in {"flows", "sessions"}, ap \in BOOLEAN,
        named \in BOOLEAN : RestoreCall(p, cat, ap, named, 1)
  \/ \E p \in Procs, ok \in BOOLEAN : RestoreFetch(p, 1, ok)
  \/ \E p \in Procs, ok \in BOOLEAN : RestoreSave(p, 1, ok)
  \/ Corrupt(getKey("sessions"))

RestoreSpec == Init /\ [][RestoreNext]_vars

\* The lazy restore of a worker whose host does not wait for one
\* ensureRestored call to return before it makes the next: a worker with a
\* local store, an admin that saves flows and sessions, and up to two calls
\* in flight.
OverlapNext ==
  \/ InitStart("p1", "admin", "hook", TRUE, TRUE, FALSE, Arr(<<>>), FALSE)
  \/ \E lf \in LocalInputs("worker") :
        InitStart("p2", "worker", "hook", TRUE, TRUE, TRUE, lf, FALSE)
  \/ \E p \in Procs : InitSubscribe(p, TRUE)
  \/ \E cat \in {"flows", "sessions"} : \E v \in SaveInputs(cat) :
        SaveLocal("p1", cat, v, FALSE, FALSE, TRUE, 1)
  \/ \E p \in Procs : SaveMirror(p, 1, TRUE)
  \/ \E p \in Procs : SavePublish(p, 1, TRUE)
  \/ \E p \in Procs, cat \in {"flows", "sessions"}, ap \in BOOLEAN :
        RestoreCall(p, cat, ap, FALSE, 2)
  \/ \E p \in Procs, i \in 1..2, ok \in BOOLEAN : RestoreFetch(p, i, ok)
  \/ \E p \in Procs, i \in 1..2, ok \in BOOLEAN : RestoreSave(p, i, ok)

RestoreOverlapSpec == Init /\ [][OverlapNext]_vars

\* An admin with a local store whose host does not wait for one saveFlows
\* call to return before it makes the next: up to two calls in flight, no
\* failing write.
SaveOverlapNext ==
  \/ \E lf \in LocalInputs("admin") :
        InitStart("p1", "admin", "hook", TRUE, TRUE, TRUE, lf, FALSE)
  \/ \E p \in Procs : InitSeedFlowsCheck(p, TRUE)
  \/ \E p \in Procs : InitSeedFlowsSet(p, TRUE)
  \/ \E p \in Procs : InitSeedCredsCheck(p, TRUE)
  \/ \E p \in Procs : InitSeedCredsSet(p, TRUE)
  \/ \E c \in FlowCalls, ap \in BOOLEAN :
        SaveLocal("p1", "flows", c.v, c.skip, ap, TRUE, 2)
  \/ \E p \in Procs, i \in 1..2 : SaveMirror(p, i, TRUE)
  \/ \E p \in Procs, i \in 1..2 : SavePublish(p, i, TRUE)

SaveOverlapSpec == Init /\ [][SaveOverlapNext]_vars

\* The library of a deployment with either key prefix: an admin without and
\* a worker with a local store save, get and list library entries.
LibraryNext ==
  \/ InitStart("p1", "admin", "hook", TRUE, TRUE, FALSE, Arr(<<>>), FALSE)
  \/ \E lf \in LocalInputs("worker") :
        InitStart("p2", "worker", "hook", TRUE, TRUE, TRUE, lf, FALSE)
  \/ \E p \in Procs : InitSubscribe(p, TRUE)
  \/ \E p \in Procs, type \in LibTypes, path \in LibPaths, e \in LibInputs,
        ok \in BOOLEAN : saveLibraryEntry(p, type, path, e.meta, e.body, ok)
  \/ \E p \in Procs, type \in LibTypes, path \in LibPaths \cup LibDirs,
        ok \in BOOLEAN : getLibraryEntry(p, type, path, ok)
  \/ \E p \in Procs, k \in LibKeys, ok \in BOOLEAN : LibraryListGet(p, 1, k, ok)

LibrarySpec == KeyInit /\ [][LibraryNext]_vars


\* The package synchronization: an admin and a worker configured with
\* syncPackages, neither with a local store. The clock stands still: a
\* debounce timeout may fire at any moment after it was set.
PkgNext ==
  \/ \E p \in Procs : \E r \in RoleInputs(p) \cap {"admin", "worker"} :
        InitStart(p, r, "hook", TRUE, TRUE, FALSE, Arr(<<>>), TRUE)
  \/ \E p \in Procs : InitSubscribe(p, TRUE)
  \/ \E p \in Procs, ud \in BOOLEAN :
        \E mf \in StaleManifests \cup {manifest[p]} : InitPackages(p, ud, mf)
  \/ \E p \in Procs, ok \in BOOLEAN : InitPackageSubscribe(p, ok)
  \/ \E p \in Procs, ok \in BOOLEAN : InitSeedPackages(p, ok)
  \/ \E p \in Procs, getOk \in BOOLEAN, readOk \in BOOLEAN :
        StartupSync(p, getOk, readOk)
  \/ \E p \in Procs, readOk \in BOOLEAN : PackageUpdate(p, readOk)
  \/ \E p \in Procs, i \in 1..MaxOps, ok \in BOOLEAN : InstallerReturn(p, i, ok)
  \/ \E p \in Procs, deps \in AdminManifests : ManifestWrite(p, deps)
  \/ \E p \in Procs, v \in {Arr(<<1>>)} :
        SaveLocal(p, "flows", v, FALSE, FALSE, TRUE, 1)
  \/ \E p \in Procs, v \in {Plain("a")} :
        SaveLocal(p, "settings", v, FALSE, FALSE, TRUE, 1)
  \/ \E p \in Procs : SaveMirror(p, 1, TRUE)
  \/ \E p \in Procs : SavePublish(p, 1, TRUE)
  \/ \E p \in Procs : Receive(p)
  \/ \E p \in Procs, i \in 1..MaxOps : HookThrow(p, i)
  \/ \E p \in Procs : \E due \in timers[p], readOk \in BOOLEAN :
        TimerFire(p, due, readOk)
  \/ \E p \in Procs, ok \in BOOLEAN : SyncPublish(p, ok)
  \/ \E p \in Procs, ok \in BOOLEAN : SyncSet(p, ok)

PkgSpec == Init /\ [][PkgNext]_vars

\* A worker whose package.json may already list what the admin announces:
\* admin p1 and worker p2 with syncPackages and no local store, the admin's
\* package.json written once or more, every client call resolving.
WorkerSyncNext ==
  \/ InitStart("p1", "admin", "hook", TRUE, TRUE, FALSE, Arr(<<>>), TRUE)
  \/ InitStart("p2", "worker", "hook", TRUE, TRUE, FALSE, Arr(<<>>), TRUE)
  \/ \E p \in Procs : InitSubscribe(p, TRUE)
  \/ \E p \in Procs : \E mf \in WorkerManifests \cup {manifest[p]} :
        InitPackages(p, TRUE, mf)
  \/ \E p \in Procs : InitPackageSubscribe(p, TRUE)
  \/ \E p \in Procs : InitSeedPackages(p, TRUE)
  \/ \E p \in Procs, readOk \in BOOLEAN : StartupSync(p, TRUE, readOk)
  \/ \E p \in Procs, readOk \in BOOLEAN : PackageUpdate(p, readOk)
  \/ \E p \in Procs, i \in 1..MaxOps, ok \in BOOLEAN : InstallerReturn(p, i, ok)
  \/ \E p \in Procs, deps \in {{Red, Express}, {Red, Blue}} : ManifestWrite(p, deps)
  \/ \E p \in Procs : SaveLocal(p, "settings", Plain("a"), FALSE, FALSE, TRUE, 1)
  \/ \E p \in Procs : SaveMirror(p, 1, TRUE)
  \/ \E p \in Procs : \E due \in timers[p], readOk \in BOOLEAN :
        TimerFire(p, due, readOk)
  \/ \E p \in Procs : SyncPublish(p, TRUE)
  \/ \E p \in Procs : SyncSet(p, TRUE)

WorkerSyncSpec == Init /\ [][WorkerSyncNext]_vars

\* A worker that receives payloads of the package channel from any
\* publisher: lists of package names, a JSON string, and payloads that do
\* not parse.
NotifyNext ==
  \/ InitStart("p2", "worker", "hook", TRUE, TRUE, FALSE, Arr(<<>>), TRUE)
  \/ InitSubscribe("p2", TRUE)
  \/ \E mf \in WorkerManifests : InitPackages("p2", TRUE, mf)
  \/ InitPackageSubscribe("p2", TRUE)
  \/ \E readOk \in BOOLEAN : StartupSync("p2", TRUE, readOk)
  \/ \E msg \in {Unparsable, JsonString, {Red}, {Red, Blue}} : ForeignPublish(msg)
  \/ \E readOk \in BOOLEAN : PackageUpdate("p2", readOk)
  \/ \E i \in 1..MaxOps, ok \in BOOLEAN : InstallerReturn("p2", i, ok)

NotifySpec == Init /\ [][NotifyNext]_vars

\* The admin side of the package synchronization under a clock: one admin
\* with syncPackages and no local store, settings saves whose awaits take
\* time, debounce timeouts that fire when they are due, and a restart.
AdminSyncNext ==
  \/ \E p \in {"p1"} : InitStart(p, "admin", "hook", TRUE, TRUE, FALSE, Arr(<<>>), TRUE)
  \/ \E p \in Procs, ud \in BOOLEAN : InitPackages(p, ud, manifest[p])
  \/ \E p \in Procs, ok \in BOOLEAN : InitSeedPackages(p, ok)
  \/ \E p \in Procs, deps \in AdminManifests : ManifestWrite(p, deps)
  \/ \E p \in Procs, v \in SaveInputs("settings") :
        SaveLocal(p, "settings", v, FALSE, FALSE, TRUE, 1)
  \/ \E p \in Procs, ok \in BOOLEAN : SaveMirror(p, 1, ok)
  \/ Tick
  \/ \E p \in Procs, readOk \in BOOLEAN : TimerFire(p, now, readOk)
  \/ \E p \in Procs, ok \in BOOLEAN : SyncPublish(p, ok)
  \/ \E p \in Procs, ok \in BOOLEAN : SyncSet(p, ok)
  \/ \E p \in Procs : Restart(p)

AdminSyncSpec == Init /\ [][AdminSyncNext]_vars

\* The same admin on a host where package.json may be missing or unparsable.
ManifestNext ==
  \/ AdminSyncNext
  \/ \E p \in Procs : ManifestLost(p)

ManifestSpec == Init /\ [][ManifestNext]_vars

\* The same admin with a host that may close the engine.
CloseNext ==
  \/ AdminSyncNext
  \/ \E p \in Procs : close(p)

CloseSpec == Init /\ [][CloseNext]_vars

\* The storage module around the engine: the host copies the projects proxy
\* when it loads the module and calls its methods before, during and after
\* init, which may fail and may find a local store with or without projects.
ProxyNext ==
  \/ \E p \in Procs : \E r \in RoleInputs(p) \cap {"admin", "worker"},
        pingOk \in BOOLEAN, lfsOk \in BOOLEAN :
          \E lf \in LocalInputs(r) \cup {Arr(<<>>)} :
            InitStart(p, r, "hook", pingOk, TRUE, lfsOk, lf, FALSE)
  \/ \E p \in Procs : InitSeedFlowsCheck(p, TRUE)
  \/ \E p \in Procs : InitSeedFlowsSet(p, TRUE)
  \/ \E p \in Procs : InitSeedCredsCheck(p, TRUE)
  \/ \E p \in Procs : InitSeedCredsSet(p, TRUE)
  \/ \E p \in Procs, ok \in BOOLEAN : InitSubscribe(p, ok)
  \/ \E p \in Procs, projects \in BOOLEAN : ModuleInit(p, projects)
  \/ \E p \in Procs, gitUser \in BOOLEAN : updateGitUserCache(p, gitUser)
  \/ \E p \in Procs, prop \in Props, b \in Behaviours : ProxyCall(p, prop, b)

ProxySpec == Init /\ [][ProxyNext]_vars

\* The admin side of the package synchronization of a deployment with
\* either key prefix.
KeySpec == KeyInit /\ [][AdminSyncNext]_vars

\* ------------------------------------------------------------------------
\* Properties
\* ------------------------------------------------------------------------

\* what a reader of category cat sees in a shared-store entry e
SharedView(cat, e) ==
  IF e = NoData THEN (IF cat = "flows" THEN Arr(<<>>) ELSE EmptyObj)
  ELSE IF cat = "flows" /\ e.str.val.kind = "obj" THEN Arr(e.str.val.flows)
  ELSE e.str.val

\* what a reader of category cat sees of a value v that was saved
ValueView(cat, v) == IF cat = "flows" /\ v.kind = "obj" THEN Arr(v.flows) ELSE v

WorkerGot == last.op = "get" /\ last.outcome = "ok" /\ role[last.proc] = "worker"
AdminGot == last.op = "get" /\ last.outcome = "ok" /\ role[last.proc] = "admin"
AdminSaveReturned == last.op = "save" /\ role[last.proc] = "admin"

\* the latest completed store write of a save of category cat was an admin's
AdminSaved(cat) == saved[cat].by \in Procs /\ role[saved[cat].by] = "admin"

\* C1: init with a missing or unknown role fails at the role check: the
\* process has no role, no shared-store client, no subscription, no local
\* store, no timer, no handler, and its restore flags are as constructed.
C1_InvalidRoleRefused ==
  \A p \in Procs :
    given[p] \notin {"notyet", "admin", "worker"} =>
      /\ phase[p] = "failed"
      /\ role[p] = "unset"
      /\ ~client[p]
      /\ p \notin subs
      /\ ~lfs[p]
      /\ ~packageSyncTimer[p]
      /\ needsRestore[p] = [c \in Cats |-> TRUE]
      /\ inbox[p] = <<>>
      /\ hooks[p] = <<>>

C1_Witness ==
  \E p, q \in Procs :
    /\ given[p] = NoRole /\ phase[p] = "failed"
    /\ given[q] = "bogus" /\ phase[q] = "failed"

C3_AdminReadsLocalStore ==
  AdminGot =>
    /\ ~last.readStore
    /\ lfs[last.proc] => last.result = last.localSnap

C3_Witness ==
  /\ AdminGot
  /\ lfs[last.proc]
  /\ last.storeSnap # NoData
  /\ SharedView(last.cat, last.storeSnap) # ValueView(last.cat, last.result)

\* C4: an admin save writes the local store first; when that write fails the
\* call rejects with the local store's error, having written nothing to the
\* shared store and published nothing.
C4_LocalWriteFirst ==
  /\ \A p \in Procs : \A i \in 1..Len(calls[p]) :
       (calls[p][i].pc \in {"mirror", "publish"} /\ role[p] = "admin")
         => calls[p][i].localOk
  /\ (AdminSaveReturned /\ last.outcome # "invalid" /\ ~last.localDone)
       => (last.outcome = "local" /\ last.mirror = "no" /\ last.pubs = 0)

C4_Witness ==
  /\ AdminSaveReturned /\ last.outcome = "local"

\* C5: an admin save whose local write succeeded and whose shared-store write
\* failed still completes successfully for the caller.
C5_MirrorFailureNotRethrown ==
  (AdminSaveReturned /\ last.localDone /\ last.mirror = "failed")
    => last.outcome = "ok"

\* C6: no step of a worker writes a Flows, Credentials, Settings or Sessions
\* key of the shared store.
C6_WorkerNeverWritesStore ==
  wrote # NoWrite => role[wrote.proc] # "worker"

\* C7: a save publishes one flow-update notification when it is an admin's
\* save of Flows without suppression whose local write succeeded, and none
\* otherwise (a save that ended in a failed publish attempt aside).
C7_OneNotificationPerAdminFlowSave ==
  (last.op = "save" /\ last.outcome # "publish") =>
    last.pubs = IF /\ role[last.proc] = "admin" /\ last.cat = "flows"
                   /\ ~last.skip /\ last.localDone
                  THEN 1 ELSE 0

\* C8: the flows write of a save precedes its notification, and the flows a
\* worker reads in reaction to a notification come from that write or a
\* later one.
C8_StoreWriteBeforeNotification ==
  /\ \A p \in Procs : \A i \in 1..Len(inbox[p]) : inbox[p][i].ver \in 1..fver
  /\ \A p \in Procs : \A i \in 1..Len(hooks[p]) :
       /\ hooks[p][i].ver >= 1
       /\ hooks[p][i].pc = "loaded" => hooks[p][i].rver >= hooks[p][i].ver

C8_Witness ==
  \E p \in Procs : \E i \in 1..Len(hooks[p]) :
    /\ hooks[p][i].pc = "loaded"
    /\ hooks[p][i].rver > hooks[p][i].ver

\* C9: a handler invocation that finds no reload hook, or whose hook throws
\* or rejects, ends in process.exit(0).
C9_ReloadFallbackExitsZero ==
  hookEvent.how \in {"nohook", "threw"} =>
    /\ phase[hookEvent.proc] = "exited"
    /\ exitCode[hookEvent.proc] = {0}

C9_Witness ==
  /\ hookEvent.how = "threw"
  /\ exitCode[hookEvent.proc] = {0}

\* the state of the worker's flow-update state machine
WState(p) ==
  IF phase[p] = "exited" THEN "Terminating"
  ELSE IF hooks[p] # <<>> THEN "Reloading" ELSE "Idle"

\* C10: a successful reload leaves the worker running and subscribed, Idle
\* again once no other reload is pending, and able to handle the next
\* notification; the worker terminates only from a handler that found no hook
\* or whose hook threw, and never leaves Terminating.
C10_ReloadStateMachine ==
  /\ [](\A p \in Procs :
          (phase[p] = "ready" /\ role[p] = "worker") =>
             /\ p \in subs
             /\ inbox[p] # <<>> => ENABLED Receive(p))
  /\ [][\A p \in Procs :
          /\ (hookEvent'.proc = p /\ hookEvent'.how = "returned") =>
               /\ phase'[p] = "ready"
               /\ p \in subs'
               /\ WState(p) = "Reloading"
               /\ WState(p)' = IF Len(hooks[p]) = 1 THEN "Idle" ELSE "Reloading"
          /\ (WState(p) # "Terminating" /\ WState(p)' = "Terminating") =>
               /\ hookEvent'.proc = p
               /\ hookEvent'.how \in {"nohook", "threw"}
          /\ WState(p) = "Terminating" =>
               (WState(p)' = "Terminating" /\ exitCode'[p] = exitCode[p])
       ]_vars

C10_Witness ==
  /\ hookEvent.how = "returned"
  /\ WState(hookEvent.proc) = "Idle"
  /\ inbox[hookEvent.proc] # <<>>

\* The sync passes are the ones a debounced series of instants calls for:
\* every pass starts one debounce delay after an instant that no other follows
\* within the delay, no two passes start together, and every such instant more
\* than one delay in the past has its pass.
Debounced(instants) ==
  LET n == Len(instants)
      Trailing(i) == i = n \/ instants[i + 1] - instants[i] >= DebounceMs
      Settled(i) == i = n \/ instants[i + 1] - instants[i] > DebounceMs IN
  /\ \A j \in 1..Len(hist.starts) :
       \E i \in 1..n : Trailing(i) /\ hist.starts[j] = instants[i] + DebounceMs
  /\ \A j, k \in 1..Len(hist.starts) : j < k => hist.starts[j] < hist.starts[k]
  /\ \A i \in 1..n :
       (Settled(i) /\ now > instants[i] + DebounceMs) =>
         \E j \in 1..Len(hist.starts) : hist.starts[j] = instants[i] + DebounceMs

\* C11 (as amended): admin settings saves whose shared-store writes complete
\* each less than the debounce delay after the previous one's trigger exactly
\* one sync pass, which starts one debounce delay after the last of those
\* completions; at no time is more than one debounce timer pending.
C11_DebounceFromStoreWrite ==
  /\ \A p \in Procs : Cardinality(timers[p]) <= 1
  /\ Debounced(hist.arms)

C11_Witness ==
  /\ Len(hist.arms) = 2
  /\ hist.arms[1] < hist.arms[2]
  /\ hist.arms[2] - hist.arms[1] < DebounceMs
  /\ hist.starts = <<hist.arms[2] + DebounceMs>>
  /\ now > hist.arms[2] + DebounceMs

\* C11 (as stated): admin settings saves each arriving less than the debounce
\* delay after the previous one trigger exactly one sync pass, which starts
\* one debounce delay after the last of them arrived; at no time is more than
\* one debounce timer pending.
C11_DebounceFromArrival ==
  /\ \A p \in Procs : Cardinality(timers[p]) <= 1
  /\ Debounced(hist.arrivals)

\* C12: a sync pass of the admin goes on to publish exactly when the plugin
\* set of the local manifest differs from lastKnownPackages; a pass that finds
\* it unchanged publishes nothing, writes nothing to the shared store and
\* leaves lastKnownPackages alone; a publication carries the full current set.
C12_PublishIffChanged ==
  [][LET e == pkgEvent' IN
     /\ e.kind = "compared" =>
          /\ e.admin = {pkg \in UNION manifest[e.proc] : IsPlugin(pkg)}
          /\ IF {e.admin} = lastKnownPackages[e.proc]
               THEN /\ sync'[e.proc].pc = "free"
                    /\ UNCHANGED <<pkgInbox, pkgStore, lastKnownPackages>>
                    /\ hist'.pubs = hist.pubs
               ELSE sync'[e.proc] = [pc |-> "publish", set |-> e.admin]
     /\ (hist'.pubs # hist.pubs \/ \E q \in Procs : Len(pkgInbox'[q]) > Len(pkgInbox[q])) =>
          /\ e.kind = "published"
          /\ sync[e.proc] = [pc |-> "publish", set |-> e.admin]
          /\ \A q \in pkgSubs : pkgInbox'[q] = Append(pkgInbox[q], e.admin)]_vars

C12_Witness ==
  /\ pkgEvent.kind = "compared"
  /\ ~pkgEvent.changed
  /\ pkgEvent.admin # {}
  /\ pkgStore = {pkgEvent.admin}
  /\ \E dep \in UNION manifest[pkgEvent.proc] : dep \notin pkgEvent.admin

\* C13: the first sync pass of an admin that restarted finds the plugin set
\* unchanged, and so publishes nothing, when the set it reads from its
\* manifest is the one the shared store holds from before the restart.
C13_NoAnnouncementAfterRestart ==
  (/\ pkgEvent.kind = "compared"
   /\ hist.restarted[pkgEvent.proc]
   /\ pkgEvent.first
   /\ pkgStore = {pkgEvent.admin})
    => (~pkgEvent.changed /\ sync[pkgEvent.proc].pc = "free")

\* C14: a worker pass that read admin set A and worker set W installs A - W
\* and uninstalls W - A, which turns W into A.
C14_WorkerDiff ==
  pkgEvent.kind = "diff" =>
    LET A == pkgEvent.admin
        W == pkgEvent.worker IN
    /\ W = {pkg \in UNION manifest[pkgEvent.proc] : IsPlugin(pkg)}
    /\ pkgEvent.toInstall = A \ W
    /\ pkgEvent.toUninstall = W \ A
    /\ (W \cup pkgEvent.toInstall) \ pkgEvent.toUninstall = A

C14_Witness ==
  /\ pkgEvent.kind = "diff"
  /\ pkgEvent.admin = {Red, Blue}
  /\ pkgEvent.worker = {Red, Green}
  /\ pkgEvent.toInstall = {Blue}
  /\ pkgEvent.toUninstall = {Green}

\* C15: when an installer invocation of a worker pass fails, at the startup
\* sync or in the notification handler, the worker exits with code 1 and no
\* pass of it goes on.
C15_InstallerFailureExits ==
  pkgEvent.kind = "failed" =>
    /\ exitCode[pkgEvent.proc] = {1}
    /\ passes[pkgEvent.proc] = <<>>

\* C16: a worker that received every publication of the admin, none of whose
\* installer invocations failed and whose passes have all finished, has the
\* last published set installed.
C16_WorkerConverges ==
  \A p \in Procs :
    (/\ role[p] = "worker" /\ phase[p] = "ready" /\ p \in pkgSubs
     /\ passes[p] = <<>> /\ pkgInbox[p] = <<>>
     /\ ~hist.failed[p]
     /\ hist.pubs > 0 /\ hist.got[p] = hist.pubs)
      => {{pkg \in modules[p] : IsPlugin(pkg)}} = hist.published

\* the ids of a flow set, in order; a node without an id contributes none
FlowIds(v) == FilterValid(v.flows)

C19_RestoreAtMostOnce ==
  [][\A p \in Procs, c \in Cats :
       /\ fetches'[p][c] <= 1
       /\ (fetches[p][c] >= 1 /\ restores[p] = <<>>) =>
            /\ fetches'[p][c] = fetches[p][c]
            /\ (restoreEvent'.proc = p /\ restoreEvent'.cat = c) =>
                 /\ local'[p] = local[p]
                 /\ store' = store
                 /\ ~restoreEvent'.fetched /\ ~restoreEvent'.wrote]_vars

C19_Witness ==
  /\ restoreEvent.proc # ""
  /\ ~restoreEvent.needed
  /\ lfs[restoreEvent.proc]
  /\ fetches[restoreEvent.proc][restoreEvent.cat] = 1
  /\ store[getKey(restoreEvent.cat)] # NoData

\* C20: a process exits only with code 0, and then from the reload fallback
\* (no hook, or the hook threw), or with code 1, and then from a failed
\* package sync pass.
C20_ExitCodes ==
  [][\A p \in Procs :
       exitCode'[p] # exitCode[p] =>
         \/ /\ exitCode'[p] = {0}
            /\ hookEvent'.proc = p /\ hookEvent'.how \in {"nohook", "threw"}
         \/ /\ exitCode'[p] = {1}
            /\ pkgEvent'.proc = p /\ pkgEvent'.kind = "failed"]_vars

C20_Witness ==
  /\ pkgEvent.kind = "failed"
  /\ pkgEvent.trigger = "notify"
  /\ exitCode[pkgEvent.proc] = {1}
  /\ phase[pkgEvent.proc] = "exited"

\* C18: a worker getFlows made while the shared store holds no flows and
\* no restore has happened returns the empty flow set with the default
\* revision marker, and leaves the Flows restore flag false.
C18_EmptyStoreRead ==
  (WorkerGot /\ last.cat = "flows" /\ last.storeSnap = NoData) =>
    /\ last.result = Obj(<<>>, "0")
    /\ ~needsRestore[last.proc]["flows"]

InstallPending(ps) == {i \in 1..Len(ps) : ps[i].pc = "install"}

C30_OnePassAtATime ==
  \A p \in Procs : Len(passes[p]) <= 1

\* C27: when an admin that has published a package set has no sync pass in
\* progress, lastKnownPackages and the set persisted in the shared store both
\* are the set it published last.
C27_KnownIsLastPublished ==
  \A p \in Procs :
    (/\ role[p] = "admin" /\ phase[p] = "ready"
     /\ sync[p].pc = "free"
     /\ hist.pubs > 0 /\ ~hist.restarted[p]) =>
      /\ lastKnownPackages[p] = hist.published
      /\ pkgStore = hist.published

\* C25: no ensureRestored call ends with a throw; a call that passed the
\* guard returns with the flag of its category false, whether it ended as a
\* hit, a miss, a fetch error, a decode error or a local-save error; and
\* only a hit changes the local store.
C25_RestoreNeverThrows ==
  [][LET e == restoreEvent' IN
     e.proc # "" =>
       /\ ~e.threw
       /\ e.needed =>
            /\ e.outcome \in {"hit", "miss"} \cup RestoreErrors
            /\ ~needsRestore'[e.proc][e.cat]
       /\ e.outcome # "hit" => local' = local /\ ~e.wrote]_vars

C25_Witness ==
  /\ restoreEvent.outcome = "decodeError"
  /\ store[getKey(restoreEvent.cat)] = Garbage
  /\ ~needsRestore[restoreEvent.proc][restoreEvent.cat]

C25_WitnessSaveError ==
  /\ restoreEvent.outcome = "saveError"
  /\ restoreEvent.cat = "sessions"
  /\ ~needsRestore[restoreEvent.proc][restoreEvent.cat]

\* C26: a worker restore of Flows or Credentials reads the key under which
\* the admin's last save of that category wrote, whether the worker has a
\* named project active or none.
C26_RestoreReadsSavedKey ==
  (/\ restoreEvent.proc # "" /\ restoreEvent.fetched
   /\ restoreEvent.cat \in {"flows", "credentials"}
   /\ role[restoreEvent.proc] = "worker"
   /\ AdminSaved(restoreEvent.cat)) =>
     restoreEvent.key = saved[restoreEvent.cat].key

\* C24: a process fetches a category from the shared store at most once,
\* however its ensureRestored calls overlap, and a restore flag that is false
\* stays false.
C24_OneRestorePerCategory ==
  [][\A p \in Procs, c \in Cats :
       /\ fetches'[p][c] <= 1
       /\ ~needsRestore[p][c] => ~needsRestore'[p][c]]_vars

\* C29: when an admin has no saveFlows call in flight and its last calls all
\* wrote both stores, the shared store holds the flows the local store holds.
C29_StoreEqualsLocal ==
  \A p \in Procs :
    (/\ role[p] = "admin" /\ lfs[p] /\ phase[p] = "ready"
     /\ calls[p] = <<>>
     /\ AdminSaved("flows")) =>
      deserialize(store[getKey("flows")].str).flows = local[p]["flows"].flows


\* number of occurrences of e in the sequence es
Occurrences(es, e) == Cardinality({j \in 1..Len(es) : es[j] = e})

\* the saved entries (latest per key) of the type and under the path of the
\* library key `key` that are equal to e
SavedUnder(lib, key, e) ==
  {x \in lib : /\ x.key[1] = keyPrefix /\ x.key[2] = "library:"
               /\ x.key[3] = key[3]
               /\ IsPrefix(key[4], x.key[4])
               /\ x.entry = e}

\* C23: library entries are backed by the shared store for admin and worker
\* alike. A saveLibraryEntry that succeeds leaves the entry (meta with
\* fn = body) under its library key; a getLibraryEntry of a single path
\* returns the entry last saved under that path by any process (and finds
\* nothing when none was saved); a directory-style get (empty path or a
\* path ending in '/') during which no entry is saved returns exactly the
\* saved entries of that type whose path has that prefix, each once; and no
\* step of either operation changes a local store.
C23_LibraryIsStoreBacked ==
  [][LET r == last'
         lib == hist'.lib IN
     /\ (r.op \in {"saveLibraryEntry", "getLibraryEntry"} \/ calls' # calls)
          => local' = local
     /\ r.op = "saveLibraryEntry" /\ r.outcome = "ok"
          => /\ store'[r.key] # NoData
             /\ \E x \in lib : x.key = r.key
                               /\ deserialize(store'[r.key].str) = x.entry
     /\ r.op = "getLibraryEntry" /\ ~r.dir /\ r.outcome # "failed"
          => IF \E x \in lib : x.key = r.key
               THEN /\ r.outcome = "ok"
                    /\ \A x \in lib : x.key = r.key => r.result = x.entry
               ELSE r.outcome = "notfound"
     /\ r.op = "getLibraryEntry" /\ r.dir /\ r.outcome = "ok" /\ r.snap = lib
          => /\ \A j \in 1..Len(r.entries) :
                   \E x \in lib : x.entry = r.entries[j]
             /\ \A e \in {x.entry : x \in lib} :
                   Occurrences(r.entries, e) = Cardinality(SavedUnder(lib, r.key, e))
    ]_vars

\* a worker with a local store lists directory 'd/' of a type and gets the
\* one entry saved under it, while another entry of the type lies outside
C23_Witness ==
  /\ last.op = "getLibraryEntry" /\ last.dir /\ last.outcome = "ok"
  /\ last.proc = "p2" /\ lfs["p2"]
  /\ last.key[4] = <<"d/">>
  /\ Len(last.entries) = 1
  /\ last.entries[1] = Entry("m2", "big")
  /\ Cardinality({x \in hist.lib : x.key[3] = last.key[3]}) = 2
  /\ \E x \in hist.lib : x.key[4] = <<"a.js">> /\ x.key[3] = last.key[3]

\* a single get of a worker returns a saved entry
C23_WitnessSingle ==
  /\ last.op = "getLibraryEntry" /\ ~last.dir /\ last.outcome = "ok"
  /\ last.result = Entry("m1", "f1")
  /\ last.proc = "p2"


\* C21: every key of the shared store that a step reads or writes begins
\* with the configured keyPrefix: the key of a category write, the key a
\* lazy restore fetches, a library key, and the key under which the package
\* list is persisted and read back.
C21_KeysArePrefixed ==
  /\ wrote.proc # "" => wrote.key[1] = keyPrefix
  /\ restoreEvent.key # <<>> => restoreEvent.key[1] = keyPrefix
  /\ last.key # <<>> => last.key[1] = keyPrefix
  /\ pkgEvent.key # <<>> => pkgEvent.key[1] = keyPrefix


\* C31: a worker has at most one call of the reload hook pending: a
\* flow-update notification that arrives while loadFlows() has not yet
\* settled does not start a second call.
C31_OneReloadAtATime == \A p \in Procs : Len(hooks[p]) <= 1


\* C32: an admin flows save made while a project is active, once it has
\* returned successfully, has left the ActiveScopeMarker under the key
\* 'activeProject' of the shared store.
C32_ScopeMarkerWritten ==
  (/\ last.op = "save" /\ last.cat = "flows" /\ last.outcome = "ok"
   /\ role[last.proc] = "admin"
   /\ saved["flows"].by = last.proc /\ saved["flows"].ap)
    => store[getKey("activeProject")] # NoData


\* C33: a worker sync pass (startup or notification) whose diff is empty in
\* both directions invokes the Package Installer zero times, does not exit
\* the process and changes nothing: the installed modules, package.json, the
\* shared store and the local store are as before, the worker stays
\* subscribed, and its init() goes on (startup) or it stays as it is.
C33_EmptyDiffIsNoOp ==
  [][(/\ pkgEvent'.kind = "diff"
      /\ pkgEvent'.toInstall = {} /\ pkgEvent'.toUninstall = {})
     => LET p == pkgEvent'.proc IN
        /\ passes' = passes
        /\ exitCode' = exitCode
        /\ modules' = modules /\ manifest' = manifest
        /\ store' = store /\ pkgStore' = pkgStore /\ local' = local
        /\ lastKnownPackages' = lastKnownPackages
        /\ pkgSubs' = pkgSubs /\ subs' = subs
        /\ phase'[p] = IF pkgEvent'.trigger = "startup" THEN "ready" ELSE phase[p]
        /\ \A q \in Procs \ {p} : phase'[q] = phase[q]
    ]_vars

\* a notification announces exactly the plugins the worker's package.json
\* lists, and the pass ends with an empty diff
C33_Witness ==
  /\ pkgEvent.kind = "diff" /\ pkgEvent.trigger = "notify"
  /\ pkgEvent.admin = {Red} /\ pkgEvent.worker = {Red}
  /\ pkgEvent.toInstall = {} /\ pkgEvent.toUninstall = {}

\* the same at the startup sync of a worker
C33_WitnessStartup ==
  /\ pkgEvent.kind = "diff" /\ pkgEvent.trigger = "startup"
  /\ pkgEvent.admin = {Red} /\ pkgEvent.worker = {Red}
  /\ pkgEvent.toInstall = {} /\ pkgEvent.toUninstall = {}


\* C34: an admin sync pass that starts while package.json cannot be read is
\* skipped without error: it publishes nothing, persists nothing, leaves
\* lastKnownPackages as it is, starts no publication and exits nothing; and
\* a settings save that completes after such a skip arms the debounce timer
\* for a new pass.
C34_UnreadableManifestSkips ==
  [][/\ \A p \in Procs :
          (hist'.starts # hist.starts /\ timers'[p] # timers[p] /\ manifest[p] = {})
            => /\ pkgEvent'.kind = "skipped" /\ pkgEvent'.proc = p
               /\ sync'[p] = NoSync
               /\ pkgInbox' = pkgInbox /\ hist'.pubs = hist.pubs
               /\ pkgStore' = pkgStore
               /\ lastKnownPackages' = lastKnownPackages
               /\ exitCode' = exitCode /\ phase' = phase
     /\ \A p \in Procs :
          (/\ last'.op = "save" /\ last'.cat = "settings" /\ last'.proc = p
           /\ last'.outcome = "ok"
           /\ role[p] = "admin" /\ syncPackages[p]
           /\ hist.skipped)
            => timers'[p] = {now + DebounceMs}
    ]_vars

\* a pass was skipped for want of a package.json
C34_Witness ==
  /\ pkgEvent.kind = "skipped"
  /\ manifest[pkgEvent.proc] = {} /\ packageHelper[pkgEvent.proc]
  /\ hist.pubs = 0 /\ pkgStore = {}

\* after a skipped pass a settings save has armed the timer again
C34_WitnessRetry ==
  /\ last.op = "save" /\ last.cat = "settings" /\ last.outcome = "ok"
  /\ role[last.proc] = "admin" /\ hist.skipped
  /\ timers[last.proc] = {now + DebounceMs}


\* C35: a process whose init() failed after the role was validated holds
\* nothing active: no shared-store client, no subscription to the
\* flow-update channel and none to the package channel.
C35_FailedInitLeavesNothing ==
  \A p \in Procs :
    (phase[p] = "failed" /\ role[p] \in {"admin", "worker"})
      => ~client[p] /\ p \notin subs /\ p \notin pkgSubs


\* C36: admin init() writes the key of Flows or Credentials only when the
\* shared store does not hold that key, the value written is the one of the
\* local store, and no step of init() publishes a notification.
C36_InitSeedsAbsentKeysOnly ==
  [][\A p \in Procs :
       /\ phase[p] \notin {"ready", "exited"} => inbox' = inbox
       /\ (wrote'.proc = p /\ phase[p] \in {"seedFlowsSet", "seedCredsSet"})
            => /\ role[p] = "admin"
               /\ \E cat \in {"flows", "credentials"} :
                    /\ wrote'.key = getKey(cat)
                    /\ store[getKey(cat)] = NoData
                    /\ deserialize(store'[getKey(cat)].str) = OrEmpty(local[p][cat])
    ]_vars


\* C37: an admin getFlows that follows the admin's own saveFlows(f) returns
\* the flows of f, with or without a Local Persistent Store (with one, as
\* long as no later save has replaced the local copy).
C37_AdminSaveThenGetFlows ==
  (/\ AdminGot /\ last.cat = "flows"
   /\ saved["flows"].by = last.proc
   /\ lfs[last.proc] =>
        last.localSnap = LocalValue("flows", saved["flows"].arg, saved["flows"].ap))
    => FlowIds(last.result) = FlowIds(saved["flows"].val)


\* C38: a run of the package-update handler on a payload that is not a JSON
\* list of package identifiers ends with exit code 1 and starts no installer
\* invocation.
C38_BadPayloadExits ==
  [][\A p \in Procs :
       (/\ pkgEvent'.proc = p /\ pkgEvent'.trigger = "notify"
        /\ pkgEvent'.kind \in {"diff", "failed"}
        /\ pkgInbox[p] # <<>>
        /\ Head(pkgInbox[p]) \in {Unparsable, JsonString})
         => /\ exitCode'[p] = {ExitFailure}
            /\ passes'[p] = <<>>
    ]_vars


\* C39: once close() has returned the process starts no package-sync pass
\* and issues no operation on the shared store: no debounce timeout runs
\* handlePackageSync, and no publication is under way.
C39_NothingAfterClose ==
  \A p \in Procs :
    phase[p] = "closed" => (pkgEvent.proc # p /\ sync[p].pc = "free")

\* C40: a call through the projects proxy, on the reference the host took
\* before init, answers with the safe defaults while no projects module is
\* set (getActiveProject null, flowFileExists false, any other method an
\* empty object), is forwarded to the projects module once init has
\* completed with one, and never throws to the caller.
C40_ProxyAnswers ==
  (answer.ends # "none" /\ answer.prop \in RealMethods) =>
    /\ ~answer.ready =>
          /\ answer.ends = "returns"
          /\ answer.value = (CASE answer.prop = "getActiveProject" -> "null"
                               [] answer.prop = "flowFileExists" -> "false"
                               [] OTHER -> "{}")
    /\ answer.ready => answer.forwarded
    /\ answer.ends \notin {"throws", "rejects"}

====
